---- MODULE Spec2Model ----
(***************************************************************************)
(* Model of selfhost_s3: the filesystem-backed object store               *)
(* (internal/storage), the SigV4 validator (internal/auth) and the        *)
(* request router (internal/server).                                      *)
(*                                                                         *)
(* Strings of the program are sequences of one-character strings, so that *)
(* strings.HasPrefix, strings.TrimPrefix, strings.Split and filepath.Clean*)
(* are computed character by character as the Go code computes them.      *)
(* A filesystem path is kept as the sequence of its segments (the         *)
(* absolute, cleaned form filepath.Join returns); PathStr gives its text. *)
(***************************************************************************)
EXTENDS Integers, Sequences, FiniteSets, TLC

VARIABLES
    cfg,     \* config.Config: the fields the router reads
    fs,      \* the filesystem: path -> [dir, data]
    call,    \* the last Storage call: its arguments, its result, the entries it touched
    http,    \* the last HTTP exchange of Server.handleRequest
    vreq,    \* the request handed to SignatureV4.ValidateRequest
    verdict, \* the error ValidateRequest returned for vreq
    mu,      \* Storage.mu, the sync.RWMutex: its writer and its readers
    gs       \* the goroutines that call the Storage concurrently

vars == <<cfg, fs, call, http, vreq, verdict, mu, gs>>

----------------------------------------------------------------------------
(* Bounds *)

\* longest object body, in bytes
MaxLen == 2

Bytes == {"x", "y"}

RECURSIVE SeqsUpTo(_, _)
SeqsUpTo(S, n) ==
    IF n = 0 THEN {<<>>}
    ELSE LET shorter == SeqsUpTo(S, n - 1)
         IN  shorter \cup {Append(s, c) : s \in {t \in shorter : Len(t) = n - 1}, c \in S}

Bodies == SeqsUpTo(Bytes, MaxLen)

----------------------------------------------------------------------------
(* Strings *)

NUL == "NUL"

\* strings.HasPrefix
HasPrefix(s, prefix) ==
    /\ Len(s) >= Len(prefix)
    /\ SubSeq(s, 1, Len(prefix)) = prefix

\* mutant of TrimPrefixSlash: the first character is removed whatever it is
TrimPrefixSlash_AnyChar(s) == IF s # <<>> THEN Tail(s) ELSE s

\* strings.TrimPrefix(s, "/")
TrimPrefixSlash(s) ==
    IF HasPrefix(s, <<"/">>) THEN Tail(s) ELSE s

FirstSlash(s) ==
    IF \E i \in 1..Len(s) : s[i] = "/"
    THEN CHOOSE i \in 1..Len(s) : s[i] = "/" /\ \A j \in 1..(i - 1) : s[j] # "/"
    ELSE 0

\* the '/'-separated elements of s, empty elements included
RECURSIVE SplitSlash(_)
SplitSlash(s) ==
    LET i == FirstSlash(s)
    IN  IF i = 0 THEN <<s>>
        ELSE <<SubSeq(s, 1, i - 1)>> \o SplitSlash(SubSeq(s, i + 1, Len(s)))

\* filepath.Clean of a rooted path, on its elements: empty and "." elements
\* are dropped, ".." removes the element before it and is dropped at the root
RECURSIVE CleanSegs(_, _)
CleanSegs(todo, acc) ==
    IF todo = <<>> THEN acc
    ELSE LET h == Head(todo)
         IN  IF h = <<>> \/ h = <<".">> THEN CleanSegs(Tail(todo), acc)
             ELSE IF h = <<".", ".">>
                  THEN CleanSegs(Tail(todo),
                                 IF acc = <<>> THEN acc ELSE SubSeq(acc, 1, Len(acc) - 1))
                  ELSE CleanSegs(Tail(todo), Append(acc, h))

\* strings.Join(strs, sep) for sequences of strings
RECURSIVE Join(_, _)
Join(strs, sep) ==
    IF strs = <<>> THEN <<>>
    ELSE IF Len(strs) = 1 THEN strs[1]
    ELSE strs[1] \o sep \o Join(Tail(strs), sep)

\* the text of a cleaned absolute path
RECURSIVE PathStr(_)
PathStr(p) ==
    IF p = <<>> THEN <<"/">>
    ELSE IF Len(p) = 1 THEN <<"/">> \o p[1]
    ELSE PathStr(SubSeq(p, 1, Len(p) - 1)) \o <<"/">> \o p[Len(p)]

\* filepath.Dir of a cleaned absolute path
Dir(p) == IF p = <<>> THEN p ELSE SubSeq(p, 1, Len(p) - 1)

----------------------------------------------------------------------------
(* Storage: configuration *)

\* Storage.basePath, an absolute directory
basePath == <<"/", "d">>
\* Storage.bucket
bucket == <<"b">>

\* filepath.Join(s.basePath, s.bucket)
bucketPath == CleanSegs(SplitSlash(basePath) \o <<bucket>>, <<>>)

----------------------------------------------------------------------------
(* The filesystem, as the os package calls of the storage package see it.  *)
(* fs maps each existing absolute path to [dir, data]; the parent of every *)
(* existing path exists and is a directory.                                *)

Root == <<>>
DirNode == [dir |-> TRUE, data |-> <<>>]
FileNode(d) == [dir |-> FALSE, data |-> d]

\* a path element holding a NUL byte: the syscall layer refuses the path
SegHasNul(seg) == \E j \in 1..Len(seg) : seg[j] = NUL
PathHasNul(p) == \E i \in 1..Len(p) : SegHasNul(p[i])

Children(f, p) == {q \in DOMAIN f : Len(q) = Len(p) + 1 /\ SubSeq(q, 1, Len(p)) = p}

Without(f, p) == [q \in (DOMAIN f) \ {p} |-> f[q]]

\* the longest prefix of p that exists
DeepestExisting(f, p) ==
    CHOOSE k \in 0..Len(p) :
        /\ SubSeq(p, 1, k) \in DOMAIN f
        /\ \A j \in (k + 1)..Len(p) : SubSeq(p, 1, j) \notin DOMAIN f

\* os.Stat: "ok", or the errno. os.IsNotExist holds of ENOENT only.
Stat(f, p) ==
    IF PathHasNul(p) THEN "EINVAL"
    ELSE LET k == DeepestExisting(f, p)
         IN  IF k = Len(p) THEN "ok"
             ELSE IF f[SubSeq(p, 1, k)].dir THEN "ENOENT" ELSE "ENOTDIR"

\* os.MkdirAll: creates the missing directories of p from the top down and
\* stops at the first element it cannot create.
RECURSIVE MkdirFrom(_, _, _, _)
MkdirFrom(f, p, i, made) ==
    IF i > Len(p) THEN [fs |-> f, err |-> "ok", made |-> made]
    ELSE LET q == SubSeq(p, 1, i)
         IN  IF q \in DOMAIN f
             THEN IF f[q].dir THEN MkdirFrom(f, p, i + 1, made)
                  ELSE [fs |-> f, err |-> "ENOTDIR", made |-> made]
             ELSE IF SegHasNul(p[i])
                  THEN [fs |-> f, err |-> "EINVAL", made |-> made]
                  ELSE MkdirFrom(f @@ (q :> DirNode), p, i + 1, made \cup {q})

MkdirAll(f, p) == MkdirFrom(f, p, 1, {})

\* mutant of Create: the file is opened without O_TRUNC
Create_NoTrunc(f, p) ==
    IF PathHasNul(p) THEN [fs |-> f, err |-> "EINVAL"]
    ELSE IF p \in DOMAIN f
         THEN IF f[p].dir THEN [fs |-> f, err |-> "EISDIR"]
              ELSE [fs |-> f, err |-> "ok"]
         ELSE IF Dir(p) \notin DOMAIN f THEN [fs |-> f, err |-> "ENOENT"]
              ELSE IF ~f[Dir(p)].dir THEN [fs |-> f, err |-> "ENOTDIR"]
                   ELSE [fs |-> f @@ (p :> FileNode(<<>>)), err |-> "ok"]

\* mutant of Create: a directory at the path is replaced by the file
Create_OverDir(f, p) ==
    IF PathHasNul(p) THEN [fs |-> f, err |-> "EINVAL"]
    ELSE IF p \in DOMAIN f
         THEN [fs |-> [f EXCEPT ![p] = FileNode(<<>>)], err |-> "ok"]
         ELSE IF Dir(p) \notin DOMAIN f THEN [fs |-> f, err |-> "ENOENT"]
              ELSE IF ~f[Dir(p)].dir THEN [fs |-> f, err |-> "ENOTDIR"]
                   ELSE [fs |-> f @@ (p :> FileNode(<<>>)), err |-> "ok"]

\* os.Create: O_RDWR|O_CREATE|O_TRUNC
Create(f, p) ==
    IF PathHasNul(p) THEN [fs |-> f, err |-> "EINVAL"]
    ELSE IF p \in DOMAIN f
         THEN IF f[p].dir THEN [fs |-> f, err |-> "EISDIR"]
              ELSE [fs |-> [f EXCEPT ![p] = FileNode(<<>>)], err |-> "ok"]
         ELSE IF Dir(p) \notin DOMAIN f THEN [fs |-> f, err |-> "ENOENT"]
              ELSE IF ~f[Dir(p)].dir THEN [fs |-> f, err |-> "ENOTDIR"]
                   ELSE [fs |-> f @@ (p :> FileNode(<<>>)), err |-> "ok"]

\* mutant of CopyInto: the last byte of the body is not written
CopyInto_Short(f, p, body) ==
    [f EXCEPT ![p] = FileNode(SubSeq(body, 1, Len(body) - 1))]

\* io.Copy(file, body) on a file opened at offset 0: the bytes written
\* replace the first Len(body) bytes, bytes beyond them stay
CopyInto(f, p, body) ==
    [f EXCEPT ![p] = FileNode(body \o SubSeq(f[p].data, Len(body) + 1, Len(f[p].data)))]

\* os.Remove: unlink, or rmdir of an empty directory
Remove(f, p) ==
    IF PathHasNul(p) THEN [fs |-> f, err |-> "EINVAL"]
    ELSE IF p \notin DOMAIN f THEN [fs |-> f, err |-> "ENOENT"]
    ELSE IF p = Root THEN [fs |-> f, err |-> "EBUSY"]
    ELSE IF f[p].dir /\ Children(f, p) # {} THEN [fs |-> f, err |-> "ENOTEMPTY"]
    ELSE [fs |-> Without(f, p), err |-> "ok"]

----------------------------------------------------------------------------
(* Storage (internal/storage)                                              *)

\* Storage.keyToPath: one leading '/' is removed, the rest is joined onto
\* basePath/bucket; filepath.Join cleans the result
keyToPath(key) ==
    CleanSegs(SplitSlash(basePath) \o <<bucket>> \o SplitSlash(TrimPrefixSlash(key)), <<>>)

\* mutant of validatePath: no path is refused
validatePath_Never(path) == "nil"

\* Storage.validatePath: a prefix test on the text of the two absolute paths
validatePath(path) ==
    IF ~HasPrefix(PathStr(path), PathStr(bucketPath)) THEN "ErrInvalidPath" ELSE "nil"

\* what a Storage call returns: the filesystem it leaves, its error, the
\* Object's size and the bytes of the returned stream, and the filesystem
\* entries the call handed to a syscall (touched)
Result(f, err, size, data, touched) ==
    [fs |-> f, err |-> err, size |-> size, data |-> data, touched |-> touched]

\* Storage.GetObject once path := s.keyToPath(key) is computed
GetObjectAt(f, path) ==
    IF validatePath(path) # "nil" THEN Result(f, "ErrInvalidPath", 0, <<>>, {})
    ELSE LET st == Stat(f, path)
         IN  IF st = "ENOENT" THEN Result(f, "ErrNotFound", 0, <<>>, {path})
             ELSE IF st # "ok" THEN Result(f, "IOError", 0, <<>>, {path})
             ELSE IF f[path].dir THEN Result(f, "ErrNotFound", 0, <<>>, {path})
             ELSE Result(f, "nil", Len(f[path].data), f[path].data, {path})

\* Storage.GetObject
GetObject(f, key) == GetObjectAt(f, keyToPath(key))

\* Storage.HeadObject once path := s.keyToPath(key) is computed
HeadObjectAt(f, path) ==
    IF validatePath(path) # "nil" THEN Result(f, "ErrInvalidPath", 0, <<>>, {})
    ELSE LET st == Stat(f, path)
         IN  IF st = "ENOENT" THEN Result(f, "ErrNotFound", 0, <<>>, {path})
             ELSE IF st # "ok" THEN Result(f, "IOError", 0, <<>>, {path})
             ELSE IF f[path].dir THEN Result(f, "ErrNotFound", 0, <<>>, {path})
             ELSE Result(f, "nil", Len(f[path].data), <<>>, {path})

\* Storage.HeadObject
HeadObject(f, key) == HeadObjectAt(f, keyToPath(key))

\* mutant of PutObject: a file whose copy failed is left in place
PutObject_KeepPartial(f, key, body, bodyErr) ==
    LET path == keyToPath(key)
    IN  IF validatePath(path) # "nil" THEN Result(f, "ErrInvalidPath", 0, <<>>, {})
        ELSE LET m == MkdirAll(f, Dir(path))
             IN  IF m.err # "ok" THEN Result(m.fs, "IOError", 0, <<>>, m.made)
                 ELSE LET c == Create(m.fs, path)
                      IN  IF c.err # "ok"
                          THEN Result(m.fs, "IOError", 0, <<>>, m.made \cup {path})
                          ELSE Result(CopyInto(c.fs, path, body),
                                      IF bodyErr THEN "IOError" ELSE "nil",
                                      IF bodyErr THEN 0 ELSE Len(body), <<>>,
                                      m.made \cup {path})

\* mutant of PutObject: when the copy fails the file is left as it was
\* before os.Create
PutObject_Restores(f, key, body, bodyErr) ==
    LET path == keyToPath(key)
    IN  IF validatePath(path) # "nil" THEN Result(f, "ErrInvalidPath", 0, <<>>, {})
        ELSE LET m == MkdirAll(f, Dir(path))
             IN  IF m.err # "ok" THEN Result(m.fs, "IOError", 0, <<>>, m.made)
                 ELSE LET c == Create(m.fs, path)
                      IN  IF c.err # "ok"
                          THEN Result(m.fs, "IOError", 0, <<>>, m.made \cup {path})
                          ELSE IF bodyErr
                          THEN Result(m.fs, "IOError", 0, <<>>, m.made \cup {path})
                          ELSE Result(CopyInto(c.fs, path, body), "nil", Len(body), <<>>,
                                      m.made \cup {path})

\* mutant of PutObject: the parent directories are made before the path is
\* validated
PutObject_MkdirFirst(f, key, body, bodyErr) ==
    LET path == keyToPath(key)
        m == MkdirAll(f, Dir(path))
    IN  IF validatePath(path) # "nil" THEN Result(m.fs, "ErrInvalidPath", 0, <<>>, m.made)
        ELSE IF m.err # "ok" THEN Result(m.fs, "IOError", 0, <<>>, m.made)
        ELSE LET c == Create(m.fs, path)
             IN  IF c.err # "ok"
                 THEN Result(m.fs, "IOError", 0, <<>>, m.made \cup {path})
                 ELSE IF bodyErr
                 THEN Result(Remove(CopyInto(c.fs, path, body), path).fs,
                             "IOError", 0, <<>>, m.made \cup {path})
                 ELSE Result(CopyInto(c.fs, path, body), "nil", Len(body), <<>>,
                             m.made \cup {path})

\* Storage.PutObject. bodyErr: the body reader fails before its end; the
\* bytes of body are those it delivered before failing.
PutObject(f, key, body, bodyErr) ==
    LET path == keyToPath(key)
    IN  IF validatePath(path) # "nil" THEN Result(f, "ErrInvalidPath", 0, <<>>, {})
        ELSE LET m == MkdirAll(f, Dir(path))
             IN  IF m.err # "ok" THEN Result(m.fs, "IOError", 0, <<>>, m.made)
                 ELSE LET c == Create(m.fs, path)
                      IN  IF c.err # "ok"
                          THEN Result(m.fs, "IOError", 0, <<>>, m.made \cup {path})
                          ELSE IF bodyErr
                          THEN Result(Remove(CopyInto(c.fs, path, body), path).fs,
                                      "IOError", 0, <<>>, m.made \cup {path})
                          ELSE Result(CopyInto(c.fs, path, body), "nil", Len(body), <<>>,
                                      m.made \cup {path})

\* mutant of cleanEmptyDirs: only the file's own directory is removed
cleanEmptyDirs_OneLevel(f, dir, seen) ==
    IF dir = bucketPath THEN [fs |-> f, seen |-> seen]
    ELSE IF dir \notin DOMAIN f \/ ~f[dir].dir \/ Children(f, dir) # {} \/ dir = Root
         THEN [fs |-> f, seen |-> seen \cup {dir}]
         ELSE [fs |-> Remove(f, dir).fs, seen |-> seen \cup {dir}]

\* Storage.cleanEmptyDirs: removes dir and its ancestors while they are empty,
\* until it meets the bucket directory. It returns the filesystem and the
\* directories it read. (At an empty "/" the loop of the code would not end:
\* "/" cannot be removed and is its own parent. "/" holds other entries here.)
RECURSIVE cleanEmptyDirs(_, _, _)
cleanEmptyDirs(f, dir, seen) ==
    IF dir = bucketPath THEN [fs |-> f, seen |-> seen]
    ELSE IF dir \notin DOMAIN f \/ ~f[dir].dir \/ Children(f, dir) # {} \/ dir = Root
         THEN [fs |-> f, seen |-> seen \cup {dir}]
         ELSE cleanEmptyDirs(Remove(f, dir).fs, Dir(dir), seen \cup {dir})

\* Storage.DeleteObject
DeleteObject(f, key) ==
    LET path == keyToPath(key)
    IN  IF validatePath(path) # "nil" THEN Result(f, "ErrInvalidPath", 0, <<>>, {})
        ELSE LET st == Stat(f, path)
             IN  IF st = "ENOENT" THEN Result(f, "nil", 0, <<>>, {path})
                 ELSE IF st # "ok" THEN Result(f, "IOError", 0, <<>>, {path})
                 ELSE LET r == Remove(f, path)
                      IN  IF r.err # "ok" THEN Result(f, "IOError", 0, <<>>, {path})
                          ELSE LET c == cleanEmptyDirs(r.fs, Dir(path), {})
                               IN  Result(c.fs, "nil", 0, <<>>, {path} \cup c.seen)

\* filepath.Ext: the suffix of the last path element from its last '.'
RECURSIVE Ext(_)
Ext(key) ==
    IF key = <<>> \/ key[Len(key)] = "/" THEN <<>>
    ELSE IF key[Len(key)] = "." THEN <<".">>
    ELSE LET e == Ext(SubSeq(key, 1, Len(key) - 1))
         IN  IF e = <<>> THEN <<>> ELSE Append(e, key[Len(key)])

\* guessContentType: no extension gives application/octet-stream; four
\* extensions are fixed; the others are looked up in the system's MIME
\* database and then in the fallback table ("by extension")
guessContentType(key) ==
    LET ext == Ext(key)
    IN  CASE ext = <<>>                           -> "application/octet-stream"
          [] ext = <<".", "x", "m", "l">>         -> "application/xml"
          [] ext = <<".", "w", "o", "f", "f">>    -> "font/woff"
          [] ext = <<".", "w", "o", "f", "f", "2">> -> "font/woff2"
          [] ext = <<".", "w", "e", "b", "m">>    -> "video/webm"
          [] OTHER                                -> "by extension"

\* PutObject: the ContentType of the Object it returns
PutContentType(key, contentType) ==
    IF contentType = "" THEN guessContentType(key) ELSE contentType

\* byte order of the characters of file names
Alphabet ==
    <<".", "a", "b", "c", "d", "e", "f", "g", "h", "i", "j", "k", "l", "m", "n", "o", "p",
      "q", "r", "s", "t", "u", "v", "w", "x", "y", "z">>
CharRank(c) == CHOOSE i \in 1..Len(Alphabet) : Alphabet[i] = c

\* s < t as Go compares strings
RECURSIVE NameLess(_, _)
NameLess(s, t) ==
    IF t = <<>> THEN FALSE
    ELSE IF s = <<>> THEN TRUE
    ELSE IF s[1] = t[1] THEN NameLess(Tail(s), Tail(t))
    ELSE CharRank(s[1]) < CharRank(t[1])

\* os.ReadDir / filepath.Walk: the names of a directory in ascending order
RECURSIVE SortedNames(_)
SortedNames(names) ==
    IF names = {} THEN <<>>
    ELSE LET first == CHOOSE n \in names : \A m \in names \ {n} : NameLess(n, m)
         IN  <<first>> \o SortedNames(names \ {first})

\* filepath.Walk: p, then the subtree of each of its entries in name order
RECURSIVE Walk(_, _)
RECURSIVE WalkEach(_, _, _)
Walk(f, p) ==
    IF f[p].dir
    THEN \* the names of p are read once, then each entry is walked
         CHOOSE w \in {<<p>> \o WalkEach(f, p, names) :
                          names \in {SortedNames({q[Len(q)] : q \in Children(f, p)})}} : TRUE
    ELSE <<p>>
WalkEach(f, p, names) ==
    IF names = <<>> THEN <<>>
    ELSE Walk(f, Append(p, Head(names))) \o WalkEach(f, p, Tail(names))

\* mutant of ListEntry: the prefix is not tested
ListEntry_NoFilter(f, q, prefix) ==
    LET key == Join(SubSeq(q, Len(bucketPath) + 1, Len(q)), <<"/">>)
    IN  IF q = bucketPath THEN <<>>
        ELSE << [key |-> IF f[q].dir THEN key \o <<"/">> ELSE key,
                 dir |-> f[q].dir, size |-> Len(f[q].data),
                 contentType |-> guessContentType(IF f[q].dir THEN key \o <<"/">> ELSE key)] >>

\* the walk function of ListObjects on one visited path: the Object it
\* appends, if any. The prefix is tested on the key before a directory's
\* key gets its trailing '/'. (A directory's Size is what the filesystem
\* reports for it; the model gives 0.)
ListEntry(f, q, prefix) ==
    LET key == Join(SubSeq(q, Len(bucketPath) + 1, Len(q)), <<"/">>)
    IN  IF q = bucketPath THEN <<>>
        ELSE IF prefix # <<>> /\ ~HasPrefix(key, prefix) THEN <<>>
        ELSE << [key |-> IF f[q].dir THEN key \o <<"/">> ELSE key,
                 dir |-> f[q].dir, size |-> Len(f[q].data),
                 contentType |-> guessContentType(IF f[q].dir THEN key \o <<"/">> ELSE key)] >>

RECURSIVE ListEntries(_, _, _)
ListEntries(f, visited, prefix) ==
    IF visited = <<>> THEN <<>>
    ELSE ListEntry(f, Head(visited), prefix) \o ListEntries(f, Tail(visited), prefix)

\* Storage.ListObjects: the walk fails when the bucket directory is gone
ListObjects(f, prefix) ==
    IF bucketPath \notin DOMAIN f THEN [err |-> "IOError", objects |-> <<>>]
    ELSE \* one walk of the bucket directory, the walk function on each path
         CHOOSE l \in {[err |-> "nil", objects |-> ListEntries(f, visited, prefix)] :
                          visited \in {Walk(f, bucketPath)}} : TRUE

\* Storage.EnsurePublicDir
EnsurePublicDir(f, prefix) ==
    IF prefix = <<>> THEN f
    ELSE MkdirAll(f, CleanSegs(SplitSlash(basePath) \o <<bucket>> \o SplitSlash(prefix), <<>>)).fs

\* NewStorage: the bucket directory is created under the storage root
NewStorage(f) == MkdirAll(f, bucketPath).fs

----------------------------------------------------------------------------
(* SignatureV4 (internal/auth)                                             *)
(*                                                                         *)
(* SHA-256 and HMAC-SHA256 are taken as collision free: a digest is the    *)
(* record of what was hashed, so two digests are equal exactly when their  *)
(* inputs are. The canonical request is built character by character.      *)

\* Credentials the validator was built with (NewSignatureV4)
creds == [AccessKey |-> "AK", SecretKey |-> "SK", Region |-> "r1"]

\* 15*time.Minute, in seconds
FifteenMinutes == 15 * 60
\* the date stamp amzDate[:8] changes once a day
SecondsPerDay == 24 * 60 * 60
\* hex.EncodeToString of a 32-byte HMAC: 64 characters
SigLen == 64

\* the X-Amz-Date header: absent, not in the layout 20060102T150405Z, or a time
NoDate == [kind |-> "absent", secs |-> 0]
BadDate == [kind |-> "malformed", secs |-> 0]
DateAt(t) == [kind |-> "time", secs |-> t]
\* the header's text, one token
DateText(d) ==
    IF d.kind = "absent" THEN <<>>
    ELSE IF d.kind = "malformed" THEN <<"not-a-date">>
    ELSE <<ToString(d.secs)>>
\* amzDate[:8]
DateStamp(d) == d.secs \div SecondsPerDay

\* isUnreserved (RFC 3986), over the characters of the model
Unreserved == {"a", "b", "c", "k", "t", "u", "2", "-", "_", ".", "~"}
isUnreserved(c) == c \in Unreserved

\* %XX of a character
Pct(c) ==
    CASE c = " "  -> "%20"
      [] c = "\t" -> "%09"
      [] c = "+"  -> "%2B"
      [] c = "="  -> "%3D"
      [] c = "/"  -> "%2F"
      [] OTHER    -> c

\* url.PathEscape of one character: the sub-delimiters $ & + = : @ are
\* allowed in a path segment and stay as they are
PathEscape(c) ==
    IF isUnreserved(c) \/ c \in {"$", "&", "+", "=", ":", "@"} THEN c ELSE Pct(c)

\* uriEncodePath
uriEncodePath(path) ==
    [i \in 1..Len(path) |->
        IF isUnreserved(path[i]) \/ path[i] = "/" THEN path[i] ELSE PathEscape(path[i])]

\* url.QueryEscape: a space becomes '+'
QueryEscape(str) ==
    [i \in 1..Len(str) |->
        IF isUnreserved(str[i]) THEN str[i]
        ELSE IF str[i] = " " THEN "+" ELSE Pct(str[i])]

\* strings.TrimSpace
IsSpace(c) == c \in {" ", "\t"}
RECURSIVE TrimLeft(_)
TrimLeft(str) ==
    IF str # <<>> /\ IsSpace(Head(str)) THEN TrimLeft(Tail(str)) ELSE str
RECURSIVE TrimRight(_)
TrimRight(str) ==
    IF str # <<>> /\ IsSpace(str[Len(str)])
    THEN TrimRight(SubSeq(str, 1, Len(str) - 1)) ELSE str
TrimSpace(str) == TrimRight(TrimLeft(str))

\* sort.Strings on the parameter names of the model
NameRank(n) == CASE n = "list-type" -> 1 [] n = "prefix" -> 2 [] OTHER -> 3
RECURSIVE SortByName(_)
SortByName(q) ==
    IF q = <<>> THEN <<>>
    ELSE LET i == CHOOSE i \in 1..Len(q) : \A j \in 1..Len(q) : NameRank(q[i][1]) <= NameRank(q[j][1])
         IN  <<q[i]>> \o SortByName(SubSeq(q, 1, i - 1) \o SubSeq(q, i + 1, Len(q)))

\* SignatureV4.createCanonicalQueryString. A query is a sequence of
\* <<name, value>> with distinct names; a name is one token.
createCanonicalQueryString(query) ==
    LET sorted == SortByName(query)
    IN  Join([i \in 1..Len(sorted) |-> <<sorted[i][1]>> \o <<"=">> \o QueryEscape(sorted[i][2])],
             <<"&">>)

\* strings.ToLower of a header name; a name is one token
ToLower(h) ==
    CASE h = "Host"         -> "host"
      [] h = "Content-Type" -> "content-type"
      [] OTHER              -> h

\* r.Header.Get(h), for the headers of the model: names match without regard
\* to case, and the Host header is not in r.Header (net/http moves it to
\* r.Host)
HeaderGet(r, h) ==
    CASE ToLower(h) = "content-type"         -> r.contentType
      [] ToLower(h) = "x-amz-content-sha256" -> r.sha
      [] ToLower(h) = "x-amz-date"           -> DateText(r.amzDate)
      [] OTHER                               -> <<>>

\* SignatureV4.createCanonicalHeaders
createCanonicalHeaders(r, signedHeaders) ==
    Join([i \in 1..Len(signedHeaders) |->
            LET h == signedHeaders[i]
                value == IF h = "host" THEN r.host ELSE HeaderGet(r, h)
            IN  <<h, ":">> \o TrimSpace(value) \o <<"\n">>],
         <<>>)

\* canonicalURI in createCanonicalRequest: r.URL.RawPath if it is set, else
\* the encoded r.URL.Path
canonicalURI(r) ==
    IF r.rawPath # <<>> THEN r.rawPath
    ELSE IF r.path = <<>> THEN <<"/">> ELSE uriEncodePath(r.path)

\* SignatureV4.createCanonicalRequest
createCanonicalRequest(r, signedHeaders) ==
    LET hashedPayload == IF r.sha = <<>> THEN <<"UNSIGNED-PAYLOAD">> ELSE r.sha
    IN  <<r.method, "\n">> \o canonicalURI(r) \o <<"\n">>
        \o createCanonicalQueryString(r.query) \o <<"\n">>
        \o createCanonicalHeaders(r, signedHeaders) \o <<"\n">>
        \o Join([i \in 1..Len(signedHeaders) |-> <<signedHeaders[i]>>], <<";">>) \o <<"\n">>
        \o hashedPayload

\* SignatureV4.deriveSigningKey: HMAC chain "AWS4"+secret -> date -> region
\* -> "s3" -> "aws4_request"
deriveSigningKey(secret, dateStamp, region) ==
    [seed |-> <<"AWS4", secret>>, date |-> dateStamp, region |-> region,
     service |-> "s3", terminator |-> "aws4_request"]

\* the text of a signature: the hex digits of a MAC, len of them, with the
\* digits at the positions in other replaced by other hex digits
SigText(mac, len, other) == [mac |-> mac, len |-> len, other |-> other]

\* SignatureV4.calculateSignature
calculateSignature(r, signedHeaders, amzDate) ==
    LET canonicalRequest == createCanonicalRequest(r, signedHeaders)
        dateStamp == DateStamp(amzDate)
        stringToSign == [alg |-> "AWS4-HMAC-SHA256", amzDate |-> amzDate,
                         scope |-> <<ToString(dateStamp), creds.Region, "s3", "aws4_request">>,
                         hash |-> canonicalRequest]
        signingKey == deriveSigningKey(creds.SecretKey, dateStamp, creds.Region)
    IN  SigText([key |-> signingKey, msg |-> stringToSign], SigLen, {})

\* The Authorization header. kind "absent": no header; "other": a header that
\* is not of the AWS4-HMAC-SHA256 grammar; "aws4": Credential=<cred fields
\* joined by '/'>, SignedHeaders=<names joined by ';'>, Signature=<sig>, where
\* the signature text is the hex digits sig.text followed (when nonHexAt > 0)
\* by a character outside [a-f0-9] at position nonHexAt.
NoAuth == [kind |-> "absent", cred |-> <<>>, signedHeaders |-> <<>>,
           sig |-> SigText([key |-> deriveSigningKey("", 0, ""),
                            msg |-> [alg |-> "", amzDate |-> NoDate, scope |-> <<>>, hash |-> <<>>]],
                           0, {}),
           nonHexAt |-> 0]

\* parseAuthHeader and authHeaderRegex: the groups, or "malformed". The
\* Signature group ([a-f0-9]+) takes the hex digits before the first other
\* character and must not be empty.
parseAuthHeader(a) ==
    IF a.kind # "aws4" THEN [err |-> "malformed authorization header", auth |-> a]
    ELSE IF a.nonHexAt = 1 \/ a.sig.len = 0
         THEN [err |-> "malformed authorization header", auth |-> a]
    ELSE IF Len(a.cred) # 5 THEN [err |-> "invalid credential format", auth |-> a]
    ELSE [err |-> "nil",
          auth |-> [a EXCEPT !.sig = IF a.nonHexAt = 0 THEN a.sig
                                     ELSE SigText(a.sig.mac, a.nonHexAt - 1,
                                                  {i \in a.sig.other : i < a.nonHexAt})]]

\* a window that bounds the past only
timeDiffTooLarge_PastOnly(now, requestTime) == now - requestTime > FifteenMinutes

\* the timestamp window of ValidateRequest
timeDiffTooLarge(now, requestTime) ==
    LET since == now - requestTime
        timeDiff == IF since < 0 THEN -since ELSE since
    IN  timeDiff > FifteenMinutes

\* a validator that stops after the timestamp check
ValidateRequest_NoCompare(r) ==
    IF r.authz.kind = "absent" THEN "missing Authorization header"
    ELSE LET parsed == parseAuthHeader(r.authz)
         IN  IF parsed.err # "nil" THEN "invalid Authorization header"
             ELSE IF parsed.auth.cred[1] # creds.AccessKey THEN "invalid access key"
             ELSE IF r.amzDate.kind = "absent" THEN "missing X-Amz-Date header"
             ELSE IF r.amzDate.kind = "malformed" THEN "invalid X-Amz-Date format"
             ELSE IF timeDiffTooLarge(r.now, r.amzDate.secs)
                  THEN "request timestamp too old or too far in future"
             ELSE "nil"

\* a validator that compares the region of the credential scope with its own
ValidateRequest_ScopeChecked(r) ==
    IF r.authz.kind = "absent" THEN "missing Authorization header"
    ELSE LET parsed == parseAuthHeader(r.authz)
             auth == parsed.auth
         IN  IF parsed.err # "nil" THEN "invalid Authorization header"
             ELSE IF auth.cred[1] # creds.AccessKey THEN "invalid access key"
             ELSE IF auth.cred[3] # creds.Region THEN "invalid region"
             ELSE IF r.amzDate.kind = "absent" THEN "missing X-Amz-Date header"
             ELSE IF r.amzDate.kind = "malformed" THEN "invalid X-Amz-Date format"
             ELSE IF timeDiffTooLarge(r.now, r.amzDate.secs)
                  THEN "request timestamp too old or too far in future"
             ELSE IF auth.sig # calculateSignature(r, auth.signedHeaders, r.amzDate)
                  THEN "signature mismatch"
             ELSE "nil"

\* a validator that keeps what it has validated and refuses a request it has
\* seen before
ValidateRequest_Replay(r) ==
    IF r.was # "none" THEN "request replayed"
    ELSE IF r.authz.kind = "absent" THEN "missing Authorization header"
    ELSE LET parsed == parseAuthHeader(r.authz)
             auth == parsed.auth
         IN  IF parsed.err # "nil" THEN "invalid Authorization header"
             ELSE IF auth.cred[1] # creds.AccessKey THEN "invalid access key"
             ELSE IF r.amzDate.kind = "absent" THEN "missing X-Amz-Date header"
             ELSE IF r.amzDate.kind = "malformed" THEN "invalid X-Amz-Date format"
             ELSE IF timeDiffTooLarge(r.now, r.amzDate.secs)
                  THEN "request timestamp too old or too far in future"
             ELSE IF auth.sig # calculateSignature(r, auth.signedHeaders, r.amzDate)
                  THEN "signature mismatch"
             ELSE "nil"

\* a validator that looks at X-Amz-Date before the access key
ValidateRequest_DateFirst(r) ==
    IF r.authz.kind = "absent" THEN "missing Authorization header"
    ELSE LET parsed == parseAuthHeader(r.authz)
             auth == parsed.auth
         IN  IF parsed.err # "nil" THEN "invalid Authorization header"
             ELSE IF r.amzDate.kind = "absent" THEN "missing X-Amz-Date header"
             ELSE IF r.amzDate.kind = "malformed" THEN "invalid X-Amz-Date format"
             ELSE IF timeDiffTooLarge(r.now, r.amzDate.secs)
                  THEN "request timestamp too old or too far in future"
             ELSE IF auth.cred[1] # creds.AccessKey THEN "invalid access key"
             ELSE IF auth.sig # calculateSignature(r, auth.signedHeaders, r.amzDate)
                  THEN "signature mismatch"
             ELSE "nil"

\* SignatureV4.ValidateRequest: the error, "nil" for none
ValidateRequest(r) ==
    IF r.authz.kind = "absent" THEN "missing Authorization header"
    ELSE LET parsed == parseAuthHeader(r.authz)
             auth == parsed.auth
         IN  IF parsed.err # "nil" THEN "invalid Authorization header"
             ELSE IF auth.cred[1] # creds.AccessKey THEN "invalid access key"
             ELSE IF r.amzDate.kind = "absent" THEN "missing X-Amz-Date header"
             ELSE IF r.amzDate.kind = "malformed" THEN "invalid X-Amz-Date format"
             ELSE IF timeDiffTooLarge(r.now, r.amzDate.secs)
                  THEN "request timestamp too old or too far in future"
             ELSE IF auth.sig # calculateSignature(r, auth.signedHeaders, r.amzDate)
                  THEN "signature mismatch"
             ELSE "nil"

----------------------------------------------------------------------------
(* Object keys the model draws from *)

K_nested   == <<"a", "/", "f">>                               \* a/f
K_slash    == <<"/", "a", "/", "f">>                          \* /a/f
K_inside   == <<"a", "/", "c", "/", ".", ".", "/", "f">>      \* a/c/../f
K_sibling  == <<".", ".", "/", "b", "x", "/", "f">>           \* ../bx/f
K_etc      == <<".", ".", "/", ".", ".", "/", "e">>           \* ../../e
K_up       == <<"a", "/", ".", ".", "/", ".", ".", "/", "x", "/", "g">> \* a/../../x/g
K_empty    == <<>>                                            \* the empty key
K_nul      == <<"a", "/", "f", NUL>>                          \* "a/f\x00"
K_nulDir   == <<"a", "/", "n", NUL, "/", "f">>                \* "a/n\x00/f"

StoreKeys ==
    {K_nested, K_slash, K_inside, K_sibling, K_etc, K_up, K_empty, K_nul,
     K_nulDir}

----------------------------------------------------------------------------
(* Initial state: the process has started (main, NewServer) *)

\* the public prefix, as config.Load leaves it: empty, or ending in '/'
PublicPrefixes == {<<>>, <<"p", "/">>}

\* the machine before the server starts: "/" holds the storage root /d and
\* a file /e that does not belong to the store
fs0 == (Root :> DirNode) @@ (<<<<"d">>>> :> DirNode) @@ (<<<<"e">>>> :> FileNode(<<"x">>))

\* what the caller keeps of its uploads: the key and the content type of
\* the last PutObject that it gave a content type and that succeeded
NoSent == [key |-> <<>>, ct |-> "none"]

NoCall ==
    [op |-> "none", key |-> <<>>, ct |-> "", body |-> <<>>, bodyErr |-> FALSE,
     err |-> "nil", size |-> 0, data |-> <<>>, contentType |-> "", touched |-> {},
     objects |-> <<>>, old |-> [present |-> FALSE, data |-> <<>>], sent |-> NoSent]

\* the goroutines, and one that is not in a call
Goroutines == {"g1", "g2"}
Idle ==
    [pc |-> "idle", op |-> "none", key |-> <<>>, body |-> <<>>, at |-> "end",
     path |-> <<>>, dir |-> <<>>, written |-> 0, err |-> "nil", size |-> 0,
     data |-> <<>>, objects |-> <<>>, clear |-> FALSE, waited |-> FALSE,
     stream |-> "none", file |-> <<>>, got |-> <<>>, turn |-> 0]
\* the zero sync.RWMutex
Unlocked == [writer |-> "none", readers |-> {}]

NoHttp == [method |-> "none"]
NoReq == [kind |-> "none"]

Init ==
    /\ cfg \in [PublicPrefix : PublicPrefixes]
    /\ fs = EnsurePublicDir(NewStorage(fs0), cfg.PublicPrefix)
    /\ call = NoCall
    /\ http = NoHttp
    /\ vreq = NoReq
    /\ verdict = "none"
    /\ mu = Unlocked
    /\ gs = [g \in Goroutines |-> Idle]

----------------------------------------------------------------------------
(* Storage calls made directly (the storage package's API). A call runs    *)
(* from the lock to the unlock in one step and leaves its record in call;  *)
(* Return hands the result to the caller, who may then call again.         *)

\* the file a key resolves to, before the call
OldAt(f, key) ==
    LET path == keyToPath(key)
    IN  IF path \in DOMAIN f /\ ~f[path].dir
        THEN [present |-> TRUE, data |-> f[path].data]
        ELSE [present |-> FALSE, data |-> <<>>]

\* mutant of ObjectContentType: GetObject and HeadObject report the content
\* type the object was uploaded with
ObjectContentType_Kept(op, key, ct, sent) ==
    IF op = "Put" THEN PutContentType(key, ct)
    ELSE IF op \in {"Get", "Head"}
    THEN IF sent.key = key THEN sent.ct ELSE guessContentType(key)
    ELSE ""

\* Object.ContentType of the Object that PutObject, GetObject or HeadObject
\* returns; ct is the content type given to PutObject
ObjectContentType(op, key, ct, sent) ==
    IF op = "Put" THEN PutContentType(key, ct)
    ELSE IF op \in {"Get", "Head"} THEN guessContentType(key)
    ELSE ""

Called(op, key, ct, body, bodyErr, r) ==
    /\ call.op = "none"
    /\ fs' = r.fs
    /\ call' = [op |-> op, key |-> key, ct |-> ct, body |-> body, bodyErr |-> bodyErr,
                err |-> r.err, size |-> r.size, data |-> r.data,
                contentType |-> IF r.err = "nil"
                                THEN ObjectContentType(op, key, ct, call.sent) ELSE "",
                touched |-> r.touched, objects |-> <<>>, old |-> OldAt(fs, key),
                sent |-> IF op = "Put" /\ ct # "" /\ r.err = "nil"
                         THEN [key |-> key, ct |-> ct] ELSE call.sent]

Get(key) ==
    /\ Called("Get", key, "", <<>>, FALSE, GetObject(fs, key))
    /\ UNCHANGED <<mu, gs, cfg, http, vreq, verdict>>

Head_(key) ==
    /\ Called("Head", key, "", <<>>, FALSE, HeadObject(fs, key))
    /\ UNCHANGED <<mu, gs, cfg, http, vreq, verdict>>

\* PutObject(key, ct, body)
PutAs(key, ct, body, bodyErr) ==
    /\ Called("Put", key, ct, body, bodyErr, PutObject(fs, key, body, bodyErr))
    /\ UNCHANGED <<mu, gs, cfg, http, vreq, verdict>>

\* PutObject(key, "", body)
Put(key, body, bodyErr) == PutAs(key, "", body, bodyErr)

Delete(key) ==
    /\ Called("Delete", key, "", <<>>, FALSE, DeleteObject(fs, key))
    /\ UNCHANGED <<mu, gs, cfg, http, vreq, verdict>>

Return ==
    /\ call.op # "none"
    /\ call' = [NoCall EXCEPT !.sent = call.sent]
    /\ UNCHANGED <<mu, gs, cfg, fs, http, vreq, verdict>>

StoreNext ==
    \/ \E key \in StoreKeys, body \in Bodies : Put(key, body, FALSE)
    \/ \E key \in StoreKeys : Put(key, <<>>, TRUE)
    \/ \E key \in StoreKeys : Get(key)
    \/ \E key \in StoreKeys : Head_(key)
    \/ \E key \in StoreKeys : Delete(key)
    \/ Return

StoreSpec == Init /\ [][StoreNext]_vars

----------------------------------------------------------------------------
(* Clients of the validator. An S3 client signs its request by AWS          *)
(* Signature Version 4 as AWS publishes it: every byte of the path outside  *)
(* the unreserved set and '/' is %XX, query names and values likewise (a    *)
(* space is %20), header values are trimmed and their inner runs of spaces  *)
(* become one space, header names are lower case and sorted.                *)

RefUriEncode(str, keepSlash) ==
    [i \in 1..Len(str) |->
        IF str[i] \in Unreserved \/ (keepSlash /\ str[i] = "/") THEN str[i] ELSE Pct(str[i])]

RECURSIVE RefCollapse(_)
RefCollapse(str) ==
    IF Len(str) < 2 THEN str
    ELSE IF str[1] = " " /\ str[2] = " " THEN RefCollapse(Tail(str))
    ELSE <<str[1]>> \o RefCollapse(Tail(str))

RefHeaderValue(r, h) ==
    CASE ToLower(h) = "host"                 -> r.host
      [] ToLower(h) = "content-type"         -> r.contentType
      [] ToLower(h) = "x-amz-content-sha256" -> r.sha
      [] ToLower(h) = "x-amz-date"           -> DateText(r.amzDate)
      [] OTHER                               -> <<>>

RefCanonicalRequest(r, signedHeaders) ==
    LET q == SortByName(r.query)
    IN  <<r.method, "\n">> \o (IF r.path = <<>> THEN <<"/">> ELSE RefUriEncode(r.path, TRUE))
        \o <<"\n">>
        \o Join([i \in 1..Len(q) |-> <<q[i][1]>> \o <<"=">> \o RefUriEncode(q[i][2], FALSE)],
                <<"&">>)
        \o <<"\n">>
        \o Join([i \in 1..Len(signedHeaders) |->
                    <<ToLower(signedHeaders[i]), ":">>
                    \o RefCollapse(TrimSpace(RefHeaderValue(r, signedHeaders[i])))
                    \o <<"\n">>], <<>>)
        \o <<"\n">>
        \o Join([i \in 1..Len(signedHeaders) |-> <<ToLower(signedHeaders[i])>>], <<";">>)
        \o <<"\n">>
        \o r.sha

RefSignature(r, signedHeaders, secret, region) ==
    LET dateStamp == r.amzDate.secs \div SecondsPerDay
    IN  SigText([key |-> [seed |-> <<"AWS4", secret>>, date |-> dateStamp, region |-> region,
                          service |-> "s3", terminator |-> "aws4_request"],
                 msg |-> [alg |-> "AWS4-HMAC-SHA256", amzDate |-> r.amzDate,
                          scope |-> <<ToString(dateStamp), region, "s3", "aws4_request">>,
                          hash |-> RefCanonicalRequest(r, signedHeaders)]],
                SigLen, {})

\* how a request was signed
By(signer, accessKey, secret, signedHeaders, credFields) ==
    [signer |-> signer, accessKey |-> accessKey, secret |-> secret,
     signedHeaders |-> signedHeaders, credFields |-> credFields]

\* the Authorization header a reference client sets; credFields # 5 gives a
\* credential scope without its last field
RefAuthorization(r, by) ==
    [kind |-> "aws4",
     cred |-> SubSeq(<<by.accessKey, ToString(r.amzDate.secs \div SecondsPerDay),
                       creds.Region, "s3", "aws4_request">>, 1, by.credFields),
     signedHeaders |-> by.signedHeaders,
     sig |-> RefSignature(r, by.signedHeaders, by.secret, creds.Region),
     nonHexAt |-> 0]

\* the validator's clock when the request arrives, in seconds
Now == SecondsPerDay + 450

\* r.URL.Path, r.URL.RawPath and the query of the requests: RawPath is set
\* only when the path on the wire is not the default encoding of Path
Targets ==
    { [path |-> <<"/", "b", "/", "k">>, rawPath |-> <<>>, query |-> <<>>],           \* /b/k
      [path |-> <<"/", "b", "/", "a", "+", "c">>, rawPath |-> <<>>, query |-> <<>>], \* /b/a+c
      [path |-> <<"/", "b", "/", "a", "+", "c">>,
       rawPath |-> <<"/", "b", "/", "a", "%2B", "c">>, query |-> <<>>],              \* /b/a%2Bc
      [path |-> <<"/", "b", "/", "a", " ", "c">>, rawPath |-> <<>>, query |-> <<>>], \* /b/a%20c
      [path |-> <<"/", "b">>, rawPath |-> <<>>,
       query |-> << <<"prefix", <<"a", " ", "c">>>> >>],                             \* /b?prefix=a%20c
      [path |-> <<"/", "b">>, rawPath |-> <<>>,
       query |-> << <<"prefix", <<"a">>>>, <<"list-type", <<"2">>>> >>] }            \* /b?prefix=a&list-type=2

ContentTypes == { <<>>, <<"t">>, <<"t", " ", " ", "u">>, <<" ", "t">> }
PayloadHashes == { <<>>, <<"UNSIGNED-PAYLOAD">>, <<"c", "k">> }
AmzDates ==
    {NoDate, BadDate}
    \cup {DateAt(Now + d) : d \in {0, FifteenMinutes - 1, FifteenMinutes, FifteenMinutes + 1,
                                   1 - FifteenMinutes, -FifteenMinutes, -FifteenMinutes - 1}}
SignedHeaderLists ==
    { <<"host", "x-amz-date">>,
      <<"Host", "x-amz-date">>,
      <<"content-type", "host", "x-amz-content-sha256", "x-amz-date">> }

\* requests before they are signed
BaseRequests ==
    { [kind |-> "req", method |-> m, path |-> u.path, rawPath |-> u.rawPath, query |-> u.query,
       host |-> <<"h">>, contentType |-> ct, sha |-> sha, amzDate |-> d, now |-> Now,
       authz |-> NoAuth, by |-> By("none", "", "", <<>>, 0),
       changed |-> "none", before |-> <<>>, was |-> "none"] :
      m \in {"GET", "PUT"}, u \in Targets, ct \in ContentTypes,
      sha \in PayloadHashes, d \in AmzDates }

\* the right keys with either list of signed headers, one thing wrong, and
\* another access key with a second thing wrong
Signings ==
    { By("reference", creds.AccessKey, creds.SecretKey, sh, 5) : sh \in SignedHeaderLists }
    \cup { By("reference", "AX", creds.SecretKey, <<"host", "x-amz-date">>, 5),
           By("reference", "AX", "SX", <<"host", "x-amz-date">>, 5),
           By("reference", "AX", creds.SecretKey, <<"host", "x-amz-date">>, 4),
           By("reference", creds.AccessKey, "SX", <<"host", "x-amz-date">>, 5),
           By("reference", creds.AccessKey, creds.SecretKey, <<"host", "x-amz-date">>, 4) }

Signed(r, by) == [r EXCEPT !.authz = RefAuthorization(r, by), !.by = by]

\* an Authorization header of another scheme ("Basic ...")
OtherScheme(r) == [r EXCEPT !.authz = [NoAuth EXCEPT !.kind = "other"], !.by = By("other", "", "", <<>>, 0)]

Requests ==
    BaseRequests
    \cup {OtherScheme(r) : r \in BaseRequests}
    \cup {Signed(r, by) : r \in {b \in BaseRequests : b.amzDate.kind = "time"}, by \in Signings}
    \cup {[Signed([r EXCEPT !.amzDate = DateAt(Now)], by) EXCEPT !.amzDate = r.amzDate] :
            r \in {b \in BaseRequests : b.amzDate.kind # "time"}, by \in Signings}

AuthInit ==
    /\ cfg = [PublicPrefix |-> <<>>]
    /\ fs = fs0
    /\ call = NoCall
    /\ http = NoHttp
    /\ vreq \in Requests
    /\ verdict = "none"
    /\ mu = Unlocked
    /\ gs = [g \in Goroutines |-> Idle]

\* the validator is handed the request
Validate ==
    /\ verdict = "none"
    /\ verdict' = ValidateRequest(vreq)
    /\ UNCHANGED <<mu, gs, cfg, fs, call, http, vreq>>

\* An accepted request is sent again with one byte changed, and validated.
Resent(r, what) ==
    /\ verdict = "nil"
    /\ vreq.changed = "none"
    /\ vreq' = [r EXCEPT !.changed = what]
    /\ verdict' = ValidateRequest(r)
    /\ UNCHANGED <<mu, gs, cfg, fs, call, http>>

\* one digit of the signature becomes another hex digit
ChangeSigDigit(i) ==
    Resent([vreq EXCEPT !.authz.sig.other = {i}], "signature digit")

\* one character of the signature becomes a character outside [a-f0-9]
ChangeSigNonHex(i) ==
    Resent([vreq EXCEPT !.authz.nonHexAt = i], "signature non-hex")

\* the request is signed with a secret key that differs in one byte
ChangeSecret ==
    Resent(Signed(vreq, [vreq.by EXCEPT !.secret = "SX"]), "secret")

\* one byte of a signed header's value changes: Content-Type, or Host
ChangeContentType(i, c) ==
    /\ "content-type" \in {vreq.by.signedHeaders[j] : j \in 1..Len(vreq.by.signedHeaders)}
    /\ i \in 1..Len(vreq.contentType)
    /\ c # vreq.contentType[i]
    /\ Resent([vreq EXCEPT !.contentType[i] = c, !.before = vreq.contentType], "content-type")

ChangeHost ==
    Resent([vreq EXCEPT !.host = <<"g">>, !.before = vreq.host], "host")

\* one byte of X-Amz-Date changes: the time moves, or the text no longer parses
ChangeDate(d) ==
    /\ d # vreq.amzDate
    /\ Resent([vreq EXCEPT !.amzDate = d], "date")

\* one byte of X-Amz-Content-Sha256 changes
ChangePayloadHash(i, c) ==
    /\ i \in 1..Len(vreq.sha)
    /\ c # vreq.sha[i]
    /\ Resent([vreq EXCEPT !.sha[i] = c], "payload hash")

\* The same request is validated a second time, dt seconds after the first:
\* time.Since reads the clock again. was keeps the first verdict.
Revalidate(dt) ==
    /\ verdict # "none"
    /\ vreq.changed = "none"
    /\ vreq' = [vreq EXCEPT !.now = @ + dt, !.was = verdict,
                            !.changed = IF dt = 0 THEN "again" ELSE "later"]
    /\ verdict' = ValidateRequest(vreq')
    /\ UNCHANGED <<mu, gs, cfg, fs, call, http>>

\* The request is sent again with another date (i = 2), region (i = 3) or
\* service (i = 4) in the credential scope of its Authorization header, and
\* nothing else changed. was keeps the verdict of the request as it was.
ChangeScope(i) ==
    /\ verdict # "none"
    /\ vreq.changed = "none"
    /\ i \in 1..Len(vreq.authz.cred)
    /\ vreq' = [vreq EXCEPT !.authz.cred[i] = "other", !.was = verdict, !.changed = "scope"]
    /\ verdict' = ValidateRequest(vreq')
    /\ UNCHANGED <<mu, gs, cfg, fs, call, http>>

AuthNext ==
    \/ Validate
    \/ \E i \in 2..4 : ChangeScope(i)
    \/ \E dt \in {0, FifteenMinutes} : Revalidate(dt)
    \/ \E i \in {1, SigLen} : ChangeSigDigit(i)
    \/ \E i \in {1, 2, SigLen} : ChangeSigNonHex(i)
    \/ ChangeSecret
    \/ \E i \in 1..4, c \in {"t", "u", " ", "\t"} : ChangeContentType(i, c)
    \/ ChangeHost
    \/ \E d \in {BadDate, DateAt(vreq.amzDate.secs + 1), DateAt(vreq.amzDate.secs + 3600)} :
            ChangeDate(d)
    \/ \E i \in 1..2, c \in {"c", "UNSIGNED-PAYLOAE"} : ChangePayloadHash(i, c)

AuthSpec == AuthInit /\ [][AuthNext]_vars

----------------------------------------------------------------------------
(* The request router (internal/server) *)

\* config.Config.MaxFileSize, in bytes
MaxFileSize == 2

\* r.URL.Query().Has and .Get
QueryHas(r, name) == \E i \in 1..Len(r.query) : r.query[i][1] = name
QueryGet(r, name) ==
    IF QueryHas(r, name)
    THEN r.query[CHOOSE i \in 1..Len(r.query) : r.query[i][1] = name][2]
    ELSE <<>>

\* what the handler wrote to the http.ResponseWriter, and the filesystem it left
Response(f, status, code, data, objects) ==
    [fs |-> f, status |-> status, code |-> code, data |-> data, objects |-> objects]

\* Server.sendError
sendError(f, status, code) == Response(f, status, code, <<>>, <<>>)

\* Server.handleGetObject
handleGetObject(f, key) ==
    LET g == GetObject(f, key)
    IN  IF g.err = "ErrNotFound" THEN sendError(f, 404, "NoSuchKey")
        ELSE IF g.err # "nil" THEN sendError(f, 500, "InternalError")
        ELSE Response(f, 200, "", g.data, <<[key |-> key, dir |-> FALSE, size |-> g.size]>>)

\* Server.handleHeadObject
handleHeadObject(f, key) ==
    LET g == HeadObject(f, key)
    IN  IF g.err = "ErrNotFound" THEN sendError(f, 404, "NoSuchKey")
        ELSE IF g.err # "nil" THEN sendError(f, 500, "InternalError")
        ELSE Response(f, 200, "", <<>>, <<[key |-> key, dir |-> FALSE, size |-> g.size]>>)

\* io.LimitReader(r.Body, n)
LimitReader(body, n) == SubSeq(body, 1, IF Len(body) < n THEN Len(body) ELSE n)

\* Server.handlePutObject
handlePutObject(f, r, key) ==
    IF r.contentLength > MaxFileSize THEN sendError(f, 413, "EntityTooLarge")
    ELSE LET g == PutObject(f, key, LimitReader(r.body, MaxFileSize + 1), FALSE)
         IN  IF g.err = "ErrInvalidPath" THEN sendError(g.fs, 400, "InvalidArgument")
             ELSE IF g.err # "nil" THEN sendError(g.fs, 500, "InternalError")
             ELSE Response(g.fs, 200, "", <<>>, <<>>)

\* Server.handleDeleteObject
handleDeleteObject(f, key) ==
    LET g == DeleteObject(f, key)
    IN  IF g.err = "ErrInvalidPath" THEN sendError(g.fs, 400, "InvalidArgument")
        ELSE IF g.err # "nil" THEN sendError(g.fs, 500, "InternalError")
        ELSE Response(g.fs, 204, "", <<>>, <<>>)

\* Server.handleListObjectsV2
handleListObjectsV2(f, r) ==
    LET l == ListObjects(f, QueryGet(r, "prefix"))
    IN  IF l.err # "nil" THEN sendError(f, 500, "InternalError")
        ELSE Response(f, 200, "", <<>>, l.objects)

\* bucket and key of r.URL.Path: strings.SplitN(path, "/", 2)
BucketOf(urlPath) ==
    LET path == TrimPrefixSlash(urlPath)
        i == FirstSlash(path)
    IN  IF i = 0 THEN path ELSE SubSeq(path, 1, i - 1)

KeyOf(urlPath) ==
    LET path == TrimPrefixSlash(urlPath)
        i == FirstSlash(path)
    IN  IF i = 0 THEN <<>> ELSE SubSeq(path, i + 1, Len(path))

\* a router that exempts every method
isPublicRequest_AnyMethod(c, key, method) ==
    c.PublicPrefix # <<>> /\ HasPrefix(key, c.PublicPrefix)

\* handleRequest's isPublicRequest
isPublicRequest(c, key, method) ==
    /\ c.PublicPrefix # <<>>
    /\ HasPrefix(key, c.PublicPrefix)
    /\ method \in {"GET", "HEAD"}

\* Server.handleRequest
handleRequest(f, c, r) ==
    LET key == KeyOf(r.path)
    IN  IF ~isPublicRequest(c, key, r.method) /\ ValidateRequest(r) # "nil"
        THEN sendError(f, 403, "AccessDenied")
        ELSE IF BucketOf(r.path) # bucket THEN sendError(f, 404, "NoSuchBucket")
        ELSE CASE r.method = "GET" ->
                    IF QueryHas(r, "list-type") \/ key = <<>>
                    THEN handleListObjectsV2(f, r)
                    ELSE handleGetObject(f, key)
               [] r.method = "HEAD"   -> handleHeadObject(f, key)
               [] r.method = "PUT"    -> handlePutObject(f, r, key)
               [] r.method = "DELETE" -> handleDeleteObject(f, key)
               [] OTHER               -> sendError(f, 405, "MethodNotAllowed")

\* Keys of the requests: under the public prefix, under it by text only,
\* beside it, and outside it
K_public   == <<"p", "/", "f">>                        \* p/f
K_publicUp == <<"p", "/", ".", ".", "/", "s">>         \* p/../s
K_beside   == <<"p", "x", "/", "f">>                   \* px/f
K_private  == <<"s">>                                  \* s
ServerKeys == {K_public, K_publicUp, K_beside, K_private, K_empty, K_etc}

\* bodies with their Content-Length; -1 when the length is not declared
\* (chunked transfer)
Big == [i \in 1..(MaxFileSize + 2) |-> "y"]
Uploads ==
    { [body |-> <<"x">>, contentLength |-> 1],
      [body |-> Big, contentLength |-> Len(Big)],
      [body |-> Big, contentLength |-> -1] }
NoUpload == [body |-> <<>>, contentLength |-> 0]

\* how the client authenticates: not at all, by a signature made with the
\* configured keys, or by one made with another secret
Authentications == {"unsigned", "signed", "wrong secret"}

HttpRequest(method, bkt, key, query, up, auth) ==
    LET r == [kind |-> "req", method |-> method, path |-> <<"/">> \o bkt \o <<"/">> \o key,
              rawPath |-> <<>>, query |-> query, host |-> <<"h">>, contentType |-> <<>>,
              sha |-> <<"UNSIGNED-PAYLOAD">>,
              amzDate |-> IF auth = "unsigned" THEN NoDate ELSE DateAt(Now), now |-> Now,
              authz |-> NoAuth, by |-> By("none", "", "", <<>>, 0),
              changed |-> "none", before |-> <<>>, was |-> "none",
              body |-> up.body, contentLength |-> up.contentLength]
    IN  IF auth = "unsigned" THEN r
        ELSE Signed(r, By("reference", creds.AccessKey,
                          IF auth = "signed" THEN creds.SecretKey ELSE "SX",
                          <<"host", "x-amz-date">>, 5))

Buckets == {bucket, <<"c">>}

\* one exchange: the request is routed and answered
Serve(r) ==
    LET w == handleRequest(fs, cfg, r)
    IN  /\ http = NoHttp
        /\ http' = [method |-> r.method, req |-> r, status |-> w.status, code |-> w.code,
                    data |-> w.data, objects |-> w.objects]
        /\ fs' = w.fs
        /\ UNCHANGED <<mu, gs, cfg, call, vreq, verdict>>

ServeGet ==
    \E r \in { HttpRequest("GET", bkt, key, <<>>, NoUpload, auth) :
                  bkt \in Buckets, key \in ServerKeys, auth \in Authentications } :
        Serve(r)

ServeList ==
    \E r \in { HttpRequest("GET", bucket, key,
                            << <<"prefix", prefix>>, <<"list-type", <<"2">>>> >>, NoUpload, auth) :
                  key \in {K_empty, K_public}, prefix \in {<<>>, <<"p">>},
                  auth \in Authentications } :
        Serve(r)

ServeHead ==
    \E r \in { HttpRequest("HEAD", bkt, key, <<>>, NoUpload, auth) :
                  bkt \in Buckets, key \in ServerKeys, auth \in Authentications } :
        Serve(r)

ServePut ==
    \E r \in { HttpRequest("PUT", bkt, key, <<>>, up, auth) :
                  bkt \in Buckets, key \in ServerKeys, up \in Uploads,
                  auth \in Authentications } :
        Serve(r)

ServeDelete ==
    \E r \in { HttpRequest("DELETE", bkt, key, <<>>, NoUpload, auth) :
                  bkt \in Buckets, key \in ServerKeys, auth \in Authentications } :
        Serve(r)

ServeOther ==
    \E r \in { HttpRequest("POST", bucket, K_private, <<>>, NoUpload, auth) :
                  auth \in Authentications } :
        Serve(r)

\* the connection is done; the next request may arrive
Done ==
    /\ http # NoHttp
    /\ http' = NoHttp
    /\ UNCHANGED <<mu, gs, cfg, fs, call, vreq, verdict>>

ServerNext ==
    \/ ServePut
    \/ ServeGet
    \/ ServeHead
    \/ ServeList
    \/ ServeDelete
    \/ ServeOther
    \/ Done

ServerSpec == Init /\ [][ServerNext]_vars

----------------------------------------------------------------------------
(* Storage calls on keys that share directories: an object beside a        *)
(* directory of the same name, keys with a trailing '/', listings, and the *)
(* public directory. The calls are those of StoreSpec, with ListObjects    *)
(* and EnsurePublicDir.                                                    *)

T_file    == <<"a">>                               \* a
T_under   == <<"a", "/", "f">>                     \* a/f
T_marker  == <<"a", "/", "c", "/">>                \* a/c/
T_deep    == <<"a", "/", "c", "/", "g">>           \* a/c/g
T_public  == <<"p", "/", "f">>                     \* p/f
T_xml     == <<"a", "/", "h", ".", "x", "m", "l">> \* a/h.xml
TreeKeys == {T_file, T_under, T_marker, T_deep, T_public, T_xml, K_empty}
\* the uploads that are given a content type, and the content types
TypedKeys == {T_file, T_xml}
SentTypes == {"text/plain", "application/xml"}

TreeBodies == {<<>>, <<"x">>}
ListPrefixes == {<<>>, <<"a">>, <<"a", "/">>, <<"a", "/", "c">>}
DirPrefixes == {<<>>, <<"p", "/">>, <<"a", "/", "c", "/">>}

List(prefix) ==
    LET l == ListObjects(fs, prefix)
    IN  /\ call.op = "none"
        /\ call' = [call EXCEPT !.op = "List", !.key = prefix, !.err = l.err,
                                !.objects = l.objects]
        /\ UNCHANGED <<mu, gs, cfg, fs, http, vreq, verdict>>

\* EnsurePublicDir returns the error of os.MkdirAll
EnsureDir(prefix) ==
    /\ call.op = "none"
    /\ fs' = EnsurePublicDir(fs, prefix)
    /\ call' = [call EXCEPT !.op = "EnsurePublicDir", !.key = prefix,
                   !.err = IF prefix = <<>> \/ MkdirAll(fs, keyToPath(prefix)).err = "ok"
                           THEN "nil" ELSE "IOError"]
    /\ UNCHANGED <<mu, gs, cfg, http, vreq, verdict>>

TreeNext ==
    \/ \E key \in TreeKeys, body \in TreeBodies : Put(key, body, FALSE)
    \/ \E key \in TreeKeys : Put(key, <<"x">>, TRUE)
    \/ \E key \in TypedKeys, ct \in SentTypes : PutAs(key, ct, <<"x">>, FALSE)
    \/ \E key \in TreeKeys : Delete(key)
    \/ \E key \in TreeKeys : Get(key)
    \/ \E key \in TreeKeys : Head_(key)
    \/ \E prefix \in ListPrefixes : List(prefix)
    \/ \E prefix \in DirPrefixes : EnsureDir(prefix)
    \/ Return

TreeSpec == Init /\ [][TreeNext]_vars

----------------------------------------------------------------------------
(* Goroutines that call the Storage at the same time (TestConcurrentAccess, *)
(* the handlers of concurrent requests). A call is a run of steps: taking   *)
(* the lock its method takes, one step for each system call of its body,    *)
(* releasing the lock. sync.RWMutex: Lock returns when no goroutine holds   *)
(* the mutex, RLock when no writer holds it. WaitAll is the caller          *)
(* receiving from its done channel once for each goroutine.                 *)
(* GetObject returns the file it opened: its caller reads it after the      *)
(* deferred RUnlock, one Read at a time, as io.Copy does in handleGetObject. *)
(* The open file is the file that was at the path when it was opened: it    *)
(* is the one os.Create truncates and io.Copy fills, and it keeps its        *)
(* content when os.Remove unlinks it.                                        *)

LockKeys == {T_file, T_under, T_public}
LockPrefix == <<"p", "/">>
\* the body a goroutine uploads
BodyOf(g) == IF g = "g1" THEN <<"x", "x">> ELSE <<"y">>

\* mutant of LockMode: PutObject takes the read lock
LockMode_PutReads(op) ==
    IF op = "Delete" THEN "Lock"
    ELSE IF op \in {"Put", "Get", "Head", "List"} THEN "RLock"
    ELSE "none"

\* the lock each method of Storage takes on s.mu before its body
LockMode(op) ==
    IF op \in {"Put", "Delete"} THEN "Lock"
    ELSE IF op \in {"Get", "Head", "List"} THEN "RLock"
    ELSE "none"

\* the first step of a method's body
FirstStep(op) ==
    IF op \in {"Put", "Delete"} THEN "validatePath"
    ELSE IF op \in {"Get", "Head"} THEN "Stat"
    ELSE IF op = "List" THEN "Walk"
    ELSE "MkdirAll"

\* the path a method works on
PathOf(op, key) ==
    IF op = "EnsurePublicDir"
    THEN CleanSegs(SplitSlash(basePath) \o <<bucket>> \o SplitSlash(key), <<>>)
    ELSE keyToPath(key)

\* nothing stands in the way of a file at path: no directory is at path and
\* no regular file is at one of its ancestors
Clear(f, path) ==
    /\ ~(path \in DOMAIN f /\ f[path].dir)
    /\ \A i \in 1..(Len(path) - 1) :
          SubSeq(path, 1, i) \in DOMAIN f => f[SubSeq(path, 1, i)].dir

\* mutant of Ended: the unlock is not deferred, and the returns with an
\* error leave without it
Ended_UnlocksOnSuccess(r, err) ==
    [r EXCEPT !.at = "end", !.err = err,
              !.pc = IF LockMode(r.op) = "none" \/ err # "nil" THEN "done" ELSE "unlock"]

\* the body of the method has returned: the deferred unlock is next
Ended(r, err) ==
    [r EXCEPT !.at = "end", !.err = err,
              !.pc = IF LockMode(r.op) = "none" THEN "done" ELSE "unlock"]

\* one system call of os.MkdirAll(p): the first ancestor of p (or p) that is
\* not a directory is made. err is "more" while directories are left to make
MkdirStep(f, p) ==
    LET todo == {i \in 1..Len(p) :
                    ~(SubSeq(p, 1, i) \in DOMAIN f /\ f[SubSeq(p, 1, i)].dir)}
    IN  IF todo = {} THEN [fs |-> f, err |-> "ok"]
        ELSE LET i == CHOOSE j \in todo : \A k \in todo : j <= k
                 q == SubSeq(p, 1, i)
             IN  IF q \in DOMAIN f THEN [fs |-> f, err |-> "ENOTDIR"]
                 ELSE IF SegHasNul(p[i]) THEN [fs |-> f, err |-> "EINVAL"]
                 ELSE [fs |-> f @@ (q :> DirNode), err |-> "more"]

\* one step of the body of Storage.PutObject
PutBody(f, r) ==
    IF r.at = "validatePath"
    THEN IF validatePath(r.path) # "nil"
         THEN [fs |-> f, g |-> Ended(r, "ErrInvalidPath")]
         ELSE [fs |-> f, g |-> [r EXCEPT !.at = "MkdirAll"]]
    ELSE IF r.at = "MkdirAll"
    THEN LET m == MkdirStep(f, Dir(r.path))
         IN  IF m.err = "more" THEN [fs |-> m.fs, g |-> r]
             ELSE IF m.err = "ok" THEN [fs |-> f, g |-> [r EXCEPT !.at = "Create"]]
             ELSE [fs |-> f, g |-> Ended(r, "IOError")]
    ELSE IF r.at = "Create"
    THEN LET c == Create(f, r.path)
         IN  IF c.err # "ok" THEN [fs |-> f, g |-> Ended(r, "IOError")]
             ELSE [fs |-> c.fs, g |-> [r EXCEPT !.at = "Copy"]]
    ELSE IF r.written < Len(r.body)
    THEN [fs |-> CopyInto(f, r.path, SubSeq(r.body, 1, r.written + 1)),
          g |-> [r EXCEPT !.written = r.written + 1]]
    ELSE [fs |-> f, g |-> [Ended(r, "nil") EXCEPT !.size = r.written]]

\* one step of the body of Storage.DeleteObject and of cleanEmptyDirs
DeleteBody(f, r) ==
    IF r.at = "validatePath"
    THEN IF validatePath(r.path) # "nil"
         THEN [fs |-> f, g |-> Ended(r, "ErrInvalidPath")]
         ELSE [fs |-> f, g |-> [r EXCEPT !.at = "Stat"]]
    ELSE IF r.at = "Stat"
    THEN LET st == Stat(f, r.path)
         IN  IF st = "ENOENT" THEN [fs |-> f, g |-> Ended(r, "nil")]
             ELSE IF st # "ok" THEN [fs |-> f, g |-> Ended(r, "IOError")]
             ELSE [fs |-> f, g |-> [r EXCEPT !.at = "Remove"]]
    ELSE IF r.at = "Remove"
    THEN LET rm == Remove(f, r.path)
         IN  IF rm.err # "ok" THEN [fs |-> f, g |-> Ended(r, "IOError")]
             ELSE [fs |-> rm.fs, g |-> [r EXCEPT !.at = "ReadDir", !.dir = Dir(r.path)]]
    ELSE IF r.at = "ReadDir"
    THEN IF r.dir = bucketPath THEN [fs |-> f, g |-> Ended(r, "nil")]
         ELSE IF r.dir \notin DOMAIN f \/ ~f[r.dir].dir \/ Children(f, r.dir) # {}
         THEN [fs |-> f, g |-> Ended(r, "nil")]
         ELSE [fs |-> f, g |-> [r EXCEPT !.at = "RemoveDir"]]
    ELSE [fs |-> Remove(f, r.dir).fs,
          g |-> [r EXCEPT !.at = "ReadDir", !.dir = Dir(r.dir)]]

\* one step of Storage.EnsurePublicDir
EnsureBody(f, r) ==
    LET m == MkdirStep(f, r.path)
    IN  IF r.key = <<>> THEN [fs |-> f, g |-> Ended(r, "nil")]
        ELSE IF m.err = "more" THEN [fs |-> m.fs, g |-> r]
        ELSE IF m.err = "ok" THEN [fs |-> f, g |-> Ended(r, "nil")]
        ELSE [fs |-> f, g |-> Ended(r, "IOError")]

\* a goroutine starts a call
Begin(g, op, key) ==
    /\ gs[g].pc = "idle"
    /\ gs' = [gs EXCEPT ![g] =
                 [Idle EXCEPT !.pc = IF LockMode(op) = "none" THEN "run" ELSE "lock",
                              !.op = op, !.key = key,
                              !.body = IF op = "Put" THEN BodyOf(g) ELSE <<>>,
                              !.at = FirstStep(op), !.path = PathOf(op, key),
                              !.clear = Clear(fs, PathOf(op, key))]]
    /\ UNCHANGED <<mu, cfg, fs, call, http, vreq, verdict>>

\* s.mu.Lock() or s.mu.RLock() returns. A goroutine that is in Lock or RLock
\* and that this acquisition keeps out has waited for the mutex. turn is the
\* place of the goroutine in the order in which the mutex was acquired.
Acquire(g) ==
    /\ gs[g].pc = "lock"
    /\ mu.writer = "none"
    /\ LockMode(gs[g].op) = "Lock" => mu.readers = {}
    /\ mu' = IF LockMode(gs[g].op) = "Lock" THEN [mu EXCEPT !.writer = g]
             ELSE [mu EXCEPT !.readers = @ \cup {g}]
    /\ gs' = [h \in Goroutines |->
                 IF h = g
                 THEN [gs[h] EXCEPT !.pc = "run",
                          !.turn = 1 + Cardinality({k \in Goroutines : gs[k].turn > 0})]
                 ELSE IF gs[h].pc = "lock"
                         /\ "Lock" \in {LockMode(gs[g].op), LockMode(gs[h].op)}
                 THEN [gs[h] EXCEPT !.waited = TRUE]
                 ELSE gs[h]]
    /\ UNCHANGED <<cfg, fs, call, http, vreq, verdict>>

PutStep(g) ==
    /\ gs[g].pc = "run" /\ gs[g].op = "Put"
    /\ fs' = PutBody(fs, gs[g]).fs
    /\ gs' = [gs EXCEPT ![g] = PutBody(fs, gs[g]).g]
    /\ UNCHANGED <<mu, cfg, call, http, vreq, verdict>>

\* os.Remove and the files that are open: the file a goroutine holds open
\* and that f2 no longer has at its path is unlinked and keeps its content
Unlinked(r, f, f2) ==
    IF r.stream = "open" /\ r.path \notin DOMAIN f2
    THEN [r EXCEPT !.stream = "unlinked", !.file = f[r.path].data]
    ELSE r

DeleteStep(g) ==
    /\ gs[g].pc = "run" /\ gs[g].op = "Delete"
    /\ fs' = DeleteBody(fs, gs[g]).fs
    /\ gs' = [h \in Goroutines |->
                 IF h = g THEN DeleteBody(fs, gs[g]).g
                 ELSE Unlinked(gs[h], fs, DeleteBody(fs, gs[g]).fs)]
    /\ UNCHANGED <<mu, cfg, call, http, vreq, verdict>>

\* the body of GetObject or HeadObject
ReadStep(g) ==
    LET r == IF gs[g].op = "Get" THEN GetObjectAt(fs, gs[g].path)
             ELSE HeadObjectAt(fs, gs[g].path)
    IN  /\ gs[g].pc = "run" /\ gs[g].op \in {"Get", "Head"}
        /\ gs' = [gs EXCEPT ![g] =
                     [Ended(gs[g], r.err) EXCEPT
                         !.size = r.size, !.data = r.data,
                         !.stream = IF gs[g].op = "Get" /\ r.err = "nil"
                                    THEN "open" ELSE "none"]]
        /\ UNCHANGED <<mu, cfg, fs, call, http, vreq, verdict>>

\* the body of ListObjects
ListStep(g) ==
    LET l == ListObjects(fs, gs[g].key)
    IN  /\ gs[g].pc = "run" /\ gs[g].op = "List"
        /\ gs' = [gs EXCEPT ![g] = [Ended(gs[g], l.err) EXCEPT !.objects = l.objects]]
        /\ UNCHANGED <<mu, cfg, fs, call, http, vreq, verdict>>

EnsureStep(g) ==
    /\ gs[g].pc = "run" /\ gs[g].op = "EnsurePublicDir"
    /\ fs' = EnsureBody(fs, gs[g]).fs
    /\ gs' = [gs EXCEPT ![g] = EnsureBody(fs, gs[g]).g]
    /\ UNCHANGED <<mu, cfg, call, http, vreq, verdict>>

\* mutant of Release: the read lock is kept when GetObject returns
Release_KeepsReadLock(g) ==
    /\ gs[g].pc = "unlock"
    /\ mu' = IF LockMode(gs[g].op) = "Lock" THEN [mu EXCEPT !.writer = "none"]
             ELSE IF gs[g].stream = "open" THEN mu
             ELSE [mu EXCEPT !.readers = @ \ {g}]
    /\ gs' = [gs EXCEPT ![g].pc = "done"]
    /\ UNCHANGED <<cfg, fs, call, http, vreq, verdict>>

\* the deferred s.mu.Unlock() or s.mu.RUnlock()
Release(g) ==
    /\ gs[g].pc = "unlock"
    /\ mu' = IF LockMode(gs[g].op) = "Lock" THEN [mu EXCEPT !.writer = "none"]
             ELSE [mu EXCEPT !.readers = @ \ {g}]
    /\ gs' = [gs EXCEPT ![g].pc = "done"]
    /\ UNCHANGED <<cfg, fs, call, http, vreq, verdict>>

\* the content of the file that GetObject returned to g
OpenFile(f, r) == IF r.stream = "open" THEN f[r.path].data ELSE r.file

\* one Read of the file that GetObject returned, by its caller (io.Copy in
\* handleGetObject, io.ReadAll in the tests): the bytes from the offset of
\* the file to its end, or at the end io.EOF and the deferred Close
ReadStream(g) ==
    LET content == OpenFile(fs, gs[g])
    IN  /\ gs[g].pc = "done" /\ gs[g].stream \in {"open", "unlinked"}
        /\ gs' = [gs EXCEPT ![g] =
                     IF Len(gs[g].got) < Len(content)
                     THEN [gs[g] EXCEPT !.got = @ \o SubSeq(content, Len(@) + 1, Len(content))]
                     ELSE [gs[g] EXCEPT !.stream = "closed", !.file = <<>>]]
        /\ UNCHANGED <<mu, cfg, fs, call, http, vreq, verdict>>

\* every goroutine has returned and has closed the file it was given; the
\* caller has their results
WaitAll ==
    /\ \A g \in Goroutines : gs[g].pc = "done" /\ gs[g].stream \in {"none", "closed"}
    /\ gs' = [g \in Goroutines |-> Idle]
    /\ UNCHANGED <<mu, cfg, fs, call, http, vreq, verdict>>

LockNext ==
    \/ \E g \in Goroutines, key \in LockKeys : Begin(g, "Put", key)
    \/ \E g \in Goroutines, key \in LockKeys : Begin(g, "Delete", key)
    \/ \E g \in Goroutines, key \in LockKeys : Begin(g, "Get", key)
    \/ \E g \in Goroutines, key \in LockKeys : Begin(g, "Head", key)
    \/ \E g \in Goroutines : Begin(g, "List", <<>>)
    \/ \E g \in Goroutines : Begin(g, "EnsurePublicDir", LockPrefix)
    \/ \E g \in Goroutines : Acquire(g)
    \/ \E g \in Goroutines : PutStep(g)
    \/ \E g \in Goroutines : DeleteStep(g)
    \/ \E g \in Goroutines : ReadStep(g)
    \/ \E g \in Goroutines : ListStep(g)
    \/ \E g \in Goroutines : EnsureStep(g)
    \/ \E g \in Goroutines : Release(g)
    \/ \E g \in Goroutines : ReadStream(g)
    \/ WaitAll

LockSpec == Init /\ [][LockNext]_vars

\* The calls that take the mutex, on a stored key, a key below it and a key
\* that leaves the bucket, under a scheduler that lets every goroutine that
\* can take a step take it in the end. For the steps of io.Copy this is the
\* body stream delivering its bytes and ending.
LiveKeys == {T_file, T_under, K_up}

LiveNext ==
    \/ \E g \in Goroutines, key \in LiveKeys : Begin(g, "Put", key)
    \/ \E g \in Goroutines, key \in LiveKeys : Begin(g, "Delete", key)
    \/ \E g \in Goroutines, key \in LiveKeys : Begin(g, "Get", key)
    \/ \E g \in Goroutines, key \in LiveKeys : Begin(g, "Head", key)
    \/ \E g \in Goroutines : Begin(g, "List", <<>>)
    \/ \E g \in Goroutines : Acquire(g)
    \/ \E g \in Goroutines : PutStep(g)
    \/ \E g \in Goroutines : DeleteStep(g)
    \/ \E g \in Goroutines : ReadStep(g)
    \/ \E g \in Goroutines : ListStep(g)
    \/ \E g \in Goroutines : Release(g)
    \/ \E g \in Goroutines : ReadStream(g)
    \/ WaitAll

\* the next step of the call of g: at most one of these is enabled
Step(g) ==
    \/ Acquire(g)
    \/ PutStep(g)
    \/ DeleteStep(g)
    \/ ReadStep(g)
    \/ ListStep(g)
    \/ Release(g)

LockFairSpec == Init /\ [][LiveNext]_vars /\ \A g \in Goroutines : WF_vars(Step(g))

----------------------------------------------------------------------------
(* Claims about the Object Store, checked under StoreSpec *)

\* p is the bucket directory or lies below it
UnderBucket(p) ==
    /\ Len(p) >= Len(bucketPath)
    /\ SubSeq(p, 1, Len(bucketPath)) = bucketPath

HasDotDot(key) == \E i \in 1..Len(SplitSlash(key)) : SplitSlash(key)[i] = <<".", ".">>
HasNulByte(key) == \E i \in 1..Len(key) : key[i] = NUL

\* C1: every filesystem entry a Get, Head, Put or Delete hands to a syscall
\* is the bucket directory or a descendant of it, whatever the key.
C1_StaysInBucket ==
    \A p \in call.touched : UnderBucket(p)

Lands(key) ==
    CleanSegs(<<<<"d">>, <<"b">>>> \o SplitSlash(IF key # <<>> /\ key[1] = "/" THEN Tail(key) ELSE key),
              <<>>)

\* the text of the path the key leads to does not begin with "/d/b"
LeavesBucketText(key) ==
    LET t == PathStr(Lands(key))
    IN  ~(Len(t) >= 4 /\ SubSeq(t, 1, 4) = <<"/", "d", "/", "b">>)

C8_InvalidPathChangesNothing ==
    [][call'.err = "ErrInvalidPath" => fs' = fs]_vars

\* C8 witness: Put has refused a key whose parent directories do not exist
C8_Witness ==
    /\ call.op = "Put"
    /\ call.key = K_up
    /\ call.err = "ErrInvalidPath"

\* C9: right after a successful Put(key, body), Get(key) succeeds, streams
\* exactly body and reports Size = len(body), as Put itself did.
C9_PutThenGet ==
    (call.op = "Put" /\ call.err = "nil")
        => LET g == GetObject(fs, call.key)
           IN  /\ g.err = "nil"
               /\ g.data = call.body
               /\ g.size = Len(call.body)
               /\ call.size = Len(call.body)

\* C9 witness: a Put of a longest body under a nested key succeeded
C9_Witness ==
    /\ call.op = "Put"
    /\ call.err = "nil"
    /\ call.key = K_nested
    /\ Len(call.body) = MaxLen

\* C10: a successful Put on a key that held an object leaves exactly the new
\* body: Get yields it, with its size, and nothing of the old content.
C10_OverwriteReplaces ==
    (call.op = "Put" /\ call.err = "nil" /\ call.old.present)
        => LET g == GetObject(fs, call.key)
           IN  g.err = "nil" /\ g.data = call.body /\ g.size = Len(call.body)

\* C10 witness: an object was overwritten by a shorter, non-empty body
C10_Witness ==
    /\ call.op = "Put"
    /\ call.err = "nil"
    /\ call.old.present
    /\ Len(call.body) > 0
    /\ Len(call.old.data) > Len(call.body)

----------------------------------------------------------------------------
(* Claims about the Signature Validator, checked under AuthSpec *)

Validated == vreq.kind = "req" /\ verdict # "none"

InsideWindow(r) ==
    /\ r.amzDate.kind = "time"
    /\ r.amzDate.secs - r.now <= FifteenMinutes
    /\ r.now - r.amzDate.secs <= FifteenMinutes

SignedByReference(r) ==
    /\ r.by.signer = "reference"
    /\ r.by.accessKey = creds.AccessKey
    /\ r.by.secret = creds.SecretKey
    /\ r.by.credFields = 5
    /\ r.sha # <<>>
    /\ r.changed = "none"

\* C4: a request that carries the signature the reference SigV4 algorithm
\* computes with the configured credentials, and whose X-Amz-Date is inside
\* the time window, is accepted by ValidateRequest.
C4_ReferenceSignatureAccepted ==
    (Validated /\ SignedByReference(vreq) /\ InsideWindow(vreq)) => verdict = "nil"

\* the validator reaches its timestamp check: the Authorization header
\* parses, the access key is the configured one, X-Amz-Date parses
ReachesTimestampCheck(r) ==
    /\ r.authz.kind = "aws4"
    /\ r.authz.nonHexAt # 1
    /\ Len(r.authz.cred) = 5
    /\ r.authz.cred[1] = creds.AccessKey
    /\ r.amzDate.kind = "time"

TimestampError == "request timestamp too old or too far in future"

\* C6: a request whose X-Amz-Date is more than 15 minutes from the
\* validator's time, before or after, is rejected with the timestamp error;
\* one within 15 minutes passes the timestamp check, so that its verdict is
\* decided by the signature alone.
C6_WindowIsFifteenMinutes ==
    (Validated /\ ReachesTimestampCheck(vreq)) =>
        IF InsideWindow(vreq)
        THEN verdict \in {"nil", "signature mismatch"}
        ELSE verdict = TimestampError

\* 15 min 01 s in the future is rejected
C6_Witness ==
    /\ Validated
    /\ ReachesTimestampCheck(vreq)
    /\ vreq.amzDate.secs = vreq.now + FifteenMinutes + 1
    /\ verdict = TimestampError

\* the present value of the header that was changed
HeaderChanged(r) == IF r.changed = "host" THEN r.host ELSE r.contentType

----------------------------------------------------------------------------
(* Claims about the router, checked under ServerSpec *)

Exchanged == http # NoHttp

\* the directory of the public prefix, and the file a request's key names
PublicDir(c) == CleanSegs(SplitSlash(basePath) \o <<bucket>> \o SplitSlash(c.PublicPrefix), <<>>)
ObjectPath(r) == keyToPath(KeyOf(r.path))

UnderPublicPrefix(c, path) ==
    /\ c.PublicPrefix # <<>>
    /\ Len(path) > Len(PublicDir(c))
    /\ SubSeq(path, 1, Len(PublicDir(c))) = PublicDir(c)

StoredObject(f, path) == path \in DOMAIN f /\ ~f[path].dir

Unauthenticated(r) == ValidateRequest(r) # "nil"

\* C2: a GET or HEAD without a valid signature for an object stored outside
\* the public prefix is answered 403 AccessDenied without object data or
\* metadata.
C2_PrivateObjectNeedsSignature ==
    ( /\ Exchanged
      /\ http.method \in {"GET", "HEAD"}
      /\ Unauthenticated(http.req)
      /\ BucketOf(http.req.path) = bucket
      /\ StoredObject(fs, ObjectPath(http.req))
      /\ ~UnderPublicPrefix(cfg, ObjectPath(http.req)) )
    => (http.status = 403 /\ http.code = "AccessDenied" /\ http.data = <<>> /\ http.objects = <<>>)

\* C3: a PUT or DELETE that fails signature validation is answered 403 and
\* leaves the store as it was, and every step that changes the store is the
\* PUT or DELETE of a request that passes validation.
C3_WritesAreAuthenticated ==
    [][ /\ fs' # fs => (http'.method \in {"PUT", "DELETE"} /\ ~Unauthenticated(http'.req))
        /\ (http' # NoHttp /\ http # http' /\ http'.method \in {"PUT", "DELETE"}
                /\ Unauthenticated(http'.req))
            => (http'.status = 403 /\ http'.code = "AccessDenied" /\ fs' = fs) ]_vars

\* an unsigned PUT under the public prefix was refused
C3_Witness ==
    /\ Exchanged
    /\ http.method = "PUT"
    /\ cfg.PublicPrefix # <<>>
    /\ KeyOf(http.req.path) = K_public
    /\ BucketOf(http.req.path) = bucket
    /\ http.req.authz.kind = "absent"
    /\ http.status = 403
----------------------------------------------------------------------------
(* Claims about deletes, failed uploads, keys ending in '/' and listings,  *)
(* checked under TreeSpec                                                   *)

\* the step is a call of op: call holds no call before it and op's after
Calls(op) == call.op = "none" /\ call'.op = op

IsDirAt(f, path) == path \in DOMAIN f /\ f[path].dir
IsFileAt(f, path) == path \in DOMAIN f /\ ~f[path].dir

\* C11: Delete of a key that does not name a directory succeeds whether or
\* not an object is stored under it; afterwards Head and Get of the key
\* return NotFound; when nothing was stored under the key the store is left
\* as it was; a second Delete succeeds again and changes nothing.
C11_DeleteIsIdempotent ==
    [][ (Calls("Delete") /\ ~IsDirAt(fs, keyToPath(call'.key)))
        => /\ call'.err = "nil"
           /\ GetObject(fs', call'.key).err = "ErrNotFound"
           /\ HeadObject(fs', call'.key).err = "ErrNotFound"
           /\ keyToPath(call'.key) \notin DOMAIN fs => fs' = fs
           /\ DeleteObject(fs', call'.key).err = "nil"
           /\ DeleteObject(fs', call'.key).fs = fs' ]_vars

\* C15: a Put whose body stream fails returns an error and leaves no file
\* at the key's path, so that Get and Head of the key do not succeed.
C15_FailedUploadLeavesNoFile ==
    (call.op = "Put" /\ call.bodyErr)
        => /\ call.err # "nil"
           /\ call.err = "ErrInvalidPath" \/ ~IsFileAt(fs, keyToPath(call.key))
           /\ GetObject(fs, call.key).err # "nil"
           /\ HeadObject(fs, call.key).err # "nil"

\* the stream of an upload onto a stored object failed after its first byte
C15_Witness ==
    /\ call.op = "Put"
    /\ call.bodyErr
    /\ call.body = <<"x">>
    /\ call.key = T_under
    /\ call.old.present
    /\ call.err = "IOError"
    /\ keyToPath(T_under) \notin DOMAIN fs

EndsInSlash(key) == key # <<>> /\ key[Len(key)] = "/"

\* C16: a successful Put of an empty body under a key ending in '/' leaves
\* a directory at the key's path, under directories, and returns size 0 and
\* the content type application/x-directory.
C16_SlashKeyMakesDirectory ==
    (call.op = "Put" /\ call.err = "nil" /\ EndsInSlash(call.key) /\ call.body = <<>>)
        => /\ IsDirAt(fs, keyToPath(call.key))
           /\ IsDirAt(fs, Dir(keyToPath(call.key)))
           /\ call.size = 0
           /\ PutContentType(call.key, "") = "application/x-directory"

\* the entries below the bucket directory, and the key of one
InBucket(f) ==
    {q \in DOMAIN f : Len(q) > Len(bucketPath) /\ SubSeq(q, 1, Len(bucketPath)) = bucketPath}
KeyAt(q) == Join(SubSeq(q, Len(bucketPath) + 1, Len(q)), <<"/">>)
Listed(key) == {i \in 1..Len(call.objects) : call.objects[i].key = key}

\* C17: List(prefix) holds an entry for every directory of the bucket whose
\* key, with its trailing '/', starts with prefix: after a/c was made,
\* List("a/") holds "a/".
C17_ListHoldsDirectories ==
    (call.op = "List" /\ call.err = "nil")
        => \A q \in InBucket(fs) :
              (fs[q].dir /\ HasPrefix(KeyAt(q) \o <<"/">>, call.key))
                  => \E i \in Listed(KeyAt(q) \o <<"/">>) : call.objects[i].dir

\* C18: List(prefix) holds each regular file whose key starts with prefix
\* exactly once, with its size; every entry it holds is an entry of the
\* bucket whose key starts with prefix; the bucket directory itself is never
\* an entry; List("") holds every file and directory below it once.
C18_ListIsTheFilteredWalk ==
    (call.op = "List" /\ call.err = "nil")
        => /\ \A q \in InBucket(fs) :
                (~fs[q].dir /\ HasPrefix(KeyAt(q), call.key))
                    => /\ Cardinality(Listed(KeyAt(q))) = 1
                       /\ \A i \in Listed(KeyAt(q)) :
                            ~call.objects[i].dir /\ call.objects[i].size = Len(fs[q].data)
           /\ \A i \in 1..Len(call.objects) :
                /\ HasPrefix(call.objects[i].key, call.key)
                /\ call.objects[i].key \notin {<<>>, <<".">>, <<"/">>, <<".", "/">>}
                /\ \E q \in InBucket(fs) :
                      call.objects[i].key = IF fs[q].dir THEN KeyAt(q) \o <<"/">> ELSE KeyAt(q)
           /\ call.key = <<>>
                => /\ Len(call.objects) = Cardinality(InBucket(fs))
                   /\ \A q \in InBucket(fs) :
                        Cardinality(Listed(IF fs[q].dir THEN KeyAt(q) \o <<"/">> ELSE KeyAt(q))) = 1

\* List("a/") held a/c/g and a/f and not the object p/f
C18_Witness ==
    /\ call.op = "List"
    /\ call.err = "nil"
    /\ call.key = <<"a", "/">>
    /\ Listed(T_deep) # {}
    /\ Listed(T_under) # {}
    /\ IsFileAt(fs, keyToPath(T_public))
    /\ Listed(T_public) = {}

StrictlyUnder(path, dir) == Len(path) > Len(dir) /\ SubSeq(path, 1, Len(dir)) = dir

\* C19: Delete of a key that resolves to a directory with entries succeeds
\* and leaves the store as it was.
C19_DeleteOfFullDirectorySucceeds ==
    [][ (Calls("Delete") /\ IsDirAt(fs, keyToPath(call'.key))
            /\ StrictlyUnder(keyToPath(call'.key), bucketPath)
            /\ Children(fs, keyToPath(call'.key)) # {})
        => (call'.err = "nil" /\ fs' = fs) ]_vars

----------------------------------------------------------------------------
(* Claims about concurrent calls, checked under LockSpec *)

\* the goroutine is between the return of its Lock or RLock and its unlock
InBody(g) == gs[g].pc \in {"run", "unlock"}
Writes(g) == gs[g].op \in {"Put", "Delete"}
Reads(g) == gs[g].op \in {"Get", "Head", "List"}

\* C12: while a goroutine is in the body of PutObject or DeleteObject (from
\* the lock to the unlock, the copy of the body included), no other
\* goroutine is in the body of PutObject, DeleteObject, GetObject,
\* HeadObject or ListObjects
C12_WritersAreAlone ==
    \A g \in Goroutines : \A h \in Goroutines \ {g} :
        InBody(g) /\ Writes(g) => ~(InBody(h) /\ (Writes(h) \/ Reads(h)))

\* a PutObject is in the middle of its copy while another call waits for
\* the mutex
C12_Witness ==
    \E g \in Goroutines : \E h \in Goroutines \ {g} :
        /\ gs[g].op = "Put" /\ gs[g].at = "Copy" /\ gs[g].written = 1
        /\ gs[h].pc = "lock" /\ (Writes(h) \/ Reads(h))

\* two readers are in their bodies at the same time
ReadersShare ==
    \E g \in Goroutines : \E h \in Goroutines \ {g} :
        InBody(g) /\ Reads(g) /\ InBody(h) /\ Reads(h)

\* C13: while EnsurePublicDir makes its directories, no other goroutine is
\* in the body of PutObject, DeleteObject (cleanEmptyDirs included),
\* GetObject, HeadObject or ListObjects
C13_EnsureDirIsSerialized ==
    \A g \in Goroutines : \A h \in Goroutines \ {g} :
        (gs[g].op = "EnsurePublicDir" /\ gs[g].pc = "run")
            => ~(InBody(h) /\ (Writes(h) \/ Reads(h)))

\* every goroutine has returned from a PutObject
AllPut == \A g \in Goroutines : gs[g].pc = "done" /\ gs[g].op = "Put"
DistinctKeys == \A g \in Goroutines : \A h \in Goroutines \ {g} : gs[g].key # gs[h].key
\* no two keys resolve to the same path or to a path and one of its ancestors
Independent ==
    \A g \in Goroutines : \A h \in Goroutines \ {g} :
        gs[g].path # gs[h].path /\ ~StrictlyUnder(gs[g].path, gs[h].path)
\* the PutObject of g succeeded and its key is listed and retrievable with
\* the body and the size of g
Stored(g) ==
    LET l == ListObjects(fs, <<>>).objects
    IN  /\ gs[g].err = "nil" /\ gs[g].size = Len(gs[g].body)
        /\ GetObject(fs, gs[g].key).err = "nil"
        /\ GetObject(fs, gs[g].key).data = gs[g].body
        /\ HeadObject(fs, gs[g].key).size = Len(gs[g].body)
        /\ \E i \in 1..Len(l) : l[i].key = TrimPrefixSlash(gs[g].key) /\ ~l[i].dir
                                  /\ l[i].size = Len(gs[g].body)

----------------------------------------------------------------------------
(* More claims about the Object Store, checked under TreeSpec *)

\* C21: after Delete removes a file under a nested key, the directory that
\* held it still exists, empty or not
C21_EmptyDirsArePreserved ==
    [][ LET path == keyToPath(call'.key)
        IN  (Calls("Delete") /\ call'.err = "nil" /\ IsFileAt(fs, path)
                /\ StrictlyUnder(Dir(path), bucketPath))
            => IsDirAt(fs', Dir(path)) ]_vars

\* C22: Get and Head of a key whose path does not exist or is a directory
\* return NotFound, and so do Get and Head of a key ending in '/' that a Put
\* has just stored
C22_NoFileMeansNotFound ==
    /\ (call.op \in {"Get", "Head"} /\ ~IsFileAt(fs, keyToPath(call.key)))
          => call.err = "ErrNotFound"
    /\ (call.op = "Put" /\ call.err = "nil" /\ EndsInSlash(call.key))
          => /\ GetObject(fs, call.key).err = "ErrNotFound"
             /\ HeadObject(fs, call.key).err = "ErrNotFound"

\* the part of C22 about paths that do not exist, without keys ending in '/'
GetUnderFileIsNotFound ==
    (call.op \in {"Get", "Head"} /\ ~IsFileAt(fs, keyToPath(call.key)))
        => call.err = "ErrNotFound"

\* C29: the bucket directory and every directory above it exist in every
\* reachable state, and List does not fail
C29_BucketRootExists ==
    /\ \A k \in 0..Len(bucketPath) : IsDirAt(fs, SubSeq(bucketPath, 1, k))
    /\ call.op = "List" => call.err = "nil"

----------------------------------------------------------------------------
(* More claims about the router, checked under ServerSpec *)

\* the request reached the handler of its method, which called the Object
\* Store with the request's key
StoreCalled ==
    /\ Exchanged
    /\ http.method \in {"GET", "HEAD", "PUT", "DELETE"}
    /\ http.status # 403
    /\ BucketOf(http.req.path) = bucket
    /\ http.method = "GET" => (KeyOf(http.req.path) # <<>> /\ ~QueryHas(http.req, "list-type"))
    /\ http.method = "PUT" => http.req.contentLength <= MaxFileSize

\* C23: when the Object Store returns InvalidPath for the key of a GET, HEAD,
\* PUT or DELETE, the router answers 400 InvalidArgument
C23_InvalidPathIsClientError ==
    (StoreCalled /\ validatePath(keyToPath(KeyOf(http.req.path))) # "nil")
        => (http.status = 400 /\ http.code = "InvalidArgument")

\* the objects of the bucket
StoredFiles == {q \in DOMAIN fs : StrictlyUnder(q, bucketPath) /\ ~fs[q].dir}

\* C24: a PUT that passes validation with a body longer than MaxFileSize, for
\* a key that names a file of the bucket, is answered 413 EntityTooLarge,
\* with or without a declared Content-Length, and no stored object is longer
\* than MaxFileSize
C24_UploadsAreBounded ==
    /\ (Exchanged /\ http.method = "PUT" /\ http.status # 403
            /\ BucketOf(http.req.path) = bucket /\ Len(http.req.body) > MaxFileSize
            /\ validatePath(ObjectPath(http.req)) = "nil"
            /\ ~IsDirAt(fs, ObjectPath(http.req)))
          => (http.status = 413 /\ http.code = "EntityTooLarge")
    /\ \A q \in StoredFiles : Len(fs[q].data) <= MaxFileSize

\* the request is routed to handleListObjectsV2
ListRequest(r) ==
    r.method = "GET" /\ (QueryHas(r, "list-type") \/ KeyOf(r.path) = <<>>)

\* C28: a list request without a valid signature is answered 403 and gets no
\* listing, whatever its key is
C28_ListingNeedsSignature ==
    (Exchanged /\ ListRequest(http.req) /\ Unauthenticated(http.req))
        => (http.status = 403 /\ http.objects = <<>>)

----------------------------------------------------------------------------
(* More claims about the Object Store, checked under StoreSpec *)

\* C25: the key of a call and the same key behind one more '/' name the same
\* object: they resolve to the same path, Get answers the same for both, and after
\* a Put under the key with the '/' Get and Head of the key without it return
\* the body that was put and its size
C25_LeadingSlashNamesTheSameObject ==
    /\ call.op # "none"
          => /\ keyToPath(<<"/">> \o call.key) = keyToPath(call.key)
             /\ GetObject(fs, <<"/">> \o call.key) = GetObject(fs, call.key)
    /\ (call.op = "Put" /\ call.err = "nil" /\ HasPrefix(call.key, <<"/">>))
          => /\ GetObject(fs, Tail(call.key)).err = "nil"
             /\ GetObject(fs, Tail(call.key)).data = call.body
             /\ HeadObject(fs, Tail(call.key)).err = "nil"
             /\ HeadObject(fs, Tail(call.key)).size = Len(call.body)

\* "/a/f" was put with a body, and "a/f" returns it
C25_Witness ==
    /\ call.op = "Put"
    /\ call.key = K_slash
    /\ call.err = "nil"
    /\ call.body # <<>>
    /\ GetObject(fs, K_nested).data = call.body

----------------------------------------------------------------------------
(* More claims about the Signature Validator, checked under AuthSpec *)

\* the checks of the validator, each taken alone, in the order of C26
Failing(r) ==
    LET parsed == parseAuthHeader(r.authz)
    IN  << r.authz.kind = "absent",
           r.authz.kind # "absent" /\ parsed.err # "nil",
           r.authz.cred # <<>> /\ r.authz.cred[1] # creds.AccessKey,
           r.amzDate.kind = "absent",
           r.amzDate.kind = "malformed",
           r.amzDate.kind = "time" /\ timeDiffTooLarge(r.now, r.amzDate.secs),
           r.amzDate.kind = "time" /\ r.authz.kind = "aws4"
              /\ parsed.auth.sig # calculateSignature(r, r.authz.signedHeaders, r.amzDate) >>

Verdicts ==
    << "missing Authorization header", "invalid Authorization header", "invalid access key",
       "missing X-Amz-Date header", "invalid X-Amz-Date format",
       "request timestamp too old or too far in future", "signature mismatch" >>

FirstFailing(r) ==
    LET failed == {i \in 1..7 : Failing(r)[i]}
    IN  IF failed = {} THEN "nil"
        ELSE Verdicts[CHOOSE i \in failed : \A j \in failed : i <= j]

\* C26: the verdict is that of the first failing check in the order: missing
\* Authorization, malformed Authorization, access key, missing X-Amz-Date,
\* unparsable X-Amz-Date, timestamp window, signature. A header that parses
\* with another access key gets "invalid access key" whatever its date and
\* its signature are.
C26_FirstFailingCheckIsReported ==
    verdict # "none" => verdict = FirstFailing(vreq)

\* a request with another access key, no X-Amz-Date and a signature made
\* with another secret was refused for its access key
C26_Witness ==
    /\ verdict = "invalid access key"
    /\ vreq.amzDate.kind = "absent"
    /\ vreq.by.secret # creds.SecretKey

C30_ScopeFieldsAreIgnored ==
    vreq.changed = "scope" => verdict = vreq.was

\* an accepted request is accepted again with another region in its scope
C30_Witness ==
    /\ vreq.changed = "scope"
    /\ vreq.authz.cred[3] # creds.Region
    /\ vreq.was = "nil"
    /\ verdict = "nil"

----------------------------------------------------------------------------
(* More claims about concurrent calls, checked under LockSpec *)

\* the file that GetObject returned to g has been read from, or has met a
\* writer (os.Remove) or its end
StreamUsed(g) == gs[g].got # <<>> \/ gs[g].stream \in {"unlinked", "closed"}

\* C31: GetObject's exclusion from writers ends when it returns: the file it
\* returns is read after the read lock is released, while its caller holds
\* no lock on the store
C31_StreamIsReadUnlocked ==
    \A g \in Goroutines :
        StreamUsed(g) => gs[g].pc = "done" /\ g \notin mu.readers /\ mu.writer # g

\* the reader of a GetObject has reached the end of the file while a later
\* PutObject on the same key is in its copy: what it read is neither the
\* content the object had nor the body of the PutObject, and is not of the
\* Size that GetObject reported
C31_Witness ==
    \E g \in Goroutines : \E h \in Goroutines \ {g} :
        /\ gs[g].op = "Get" /\ gs[g].stream = "closed"
        /\ gs[h].op = "Put" /\ gs[h].path = gs[g].path /\ gs[h].pc = "run"
        /\ gs[g].got # gs[g].data /\ gs[g].got # gs[h].body
        /\ Len(gs[g].got) # gs[g].size

----------------------------------------------------------------------------
(* Claims about failed uploads, keys under files and content types,        *)
(* checked under TreeSpec; about concurrent uploads, under LockSpec; about  *)
(* the release of the lock, under LockFairSpec                              *)

\* C32: a Put whose body copy fails leaves the key absent even when the key
\* held an object before the call: the object is not restored, nothing is
\* at the key's path, and Head and Get of the key return NotFound
C32_FailedOverwriteLosesTheObject ==
    (call.op = "Put" /\ call.bodyErr /\ call.old.present)
        => /\ call.err = "IOError"
           /\ keyToPath(call.key) \notin DOMAIN fs
           /\ HeadObject(fs, call.key).err = "ErrNotFound"
           /\ GetObject(fs, call.key).err = "ErrNotFound"

\* the stream of an upload onto an object that held bytes has failed
C32_Witness ==
    /\ call.op = "Put" /\ call.bodyErr
    /\ call.old.present /\ call.old.data # <<>>
    /\ call.key = T_file
    /\ HeadObject(fs, T_file).err = "ErrNotFound"

\* every goroutine has returned from a PutObject of the same key
AllPutSameKey ==
    AllPut /\ \A g \in Goroutines : \A h \in Goroutines : gs[g].key = gs[h].key
\* the goroutine that acquired the mutex last
LastToLock == CHOOSE g \in Goroutines : \A h \in Goroutines : gs[h].turn <= gs[g].turn
\* Get and Head of the key give the body of g, whole, and its length
Holds(key, g) ==
    /\ GetObject(fs, key).err = "nil"
    /\ GetObject(fs, key).data = gs[g].body
    /\ GetObject(fs, key).size = Len(gs[g].body)
    /\ HeadObject(fs, key).size = Len(gs[g].body)

Objects(f) == {q \in InBucket(f) : ~f[q].dir}
\* a regular file stands at an ancestor of path
UnderObject(f, path) == \E q \in Objects(f) : StrictlyUnder(path, q)
\* path is a directory that holds an object
OverObject(f, path) == IsDirAt(f, path) /\ \E q \in Objects(f) : StrictlyUnder(q, path)

\* no object is stored below another object
NoObjectUnderObject == \A q \in Objects(fs) : ~UnderObject(fs, q)

PutOverDirectoryFails ==
    /\ call.op = "Put" /\ call.key = T_file /\ ~call.bodyErr
    /\ call.err = "IOError"
    /\ IsFileAt(fs, keyToPath(T_under))

\* the last upload that was given a content type was of the key of the call
SentThisKey == call.sent.ct # "none" /\ call.sent.key = call.key

GetReturnsTheGuessedType ==
    /\ call.op = "Get" /\ call.err = "nil" /\ call.key = T_xml
    /\ SentThisKey /\ call.sent.ct = "application/xml"
    /\ call.contentType = call.sent.ct

\* the goroutine holds the mutex
HoldsLock(g) == mu.writer = g \/ g \in mu.readers

\* C36: every Storage operation releases the lock on every exit path, the
\* error returns included: a goroutine that is not in a call, that waits
\* for the lock or that has returned does not hold it, and every goroutine
\* that waits for the lock acquires it and returns in the end
C36_LockIsReleasedOnEveryPath ==
    /\ [](\A g \in Goroutines : gs[g].pc \in {"idle", "lock", "done"} => ~HoldsLock(g))
    /\ \A g \in Goroutines : (gs[g].pc = "lock") ~> (gs[g].pc = "done" /\ ~HoldsLock(g))

\* both goroutines have returned, one with InvalidPath after it waited for
\* the lock and the other with NotFound, and the lock is free
C36_Witness ==
    \E g \in Goroutines : \E h \in Goroutines \ {g} :
        /\ gs[g].pc = "done" /\ gs[g].err = "ErrInvalidPath" /\ gs[g].waited
        /\ gs[h].pc = "done" /\ gs[h].err = "ErrNotFound"
        /\ mu = Unlocked

\* a PutObject has returned with an I/O error and the lock is free
PutFailedAndUnlocked ==
    \E g \in Goroutines :
        gs[g].pc = "done" /\ gs[g].op = "Put" /\ gs[g].err = "IOError" /\ mu = Unlocked

----------------------------------------------------------------------------
(* Claims about the canonical request, checked under AuthSpec *)

\* ValidateRequest went as far as calculateSignature: the canonical request
\* of vreq was built
Calculated == Validated /\ verdict \in {"nil", "signature mismatch"}

\* the entry the statement gives for the signed header h of request r
DeclaredHeaderLine(r, h) ==
    <<ToLower(h), ":">>
    \o TrimSpace(IF ToLower(h) = "host" THEN r.host ELSE HeaderGet(r, h))
    \o <<"\n">>

\* C37: the canonical headers are the headers of the client's SignedHeaders
\* list in the declared order, each as the lower-cased name, ':', the value
\* trimmed at both ends (inner runs of spaces are kept) and a newline; the
\* host entry has the request's Host.
C37_CanonicalHeadersAreTheSignedHeaders ==
    Calculated =>
        LET signedHeaders == vreq.authz.signedHeaders
        IN  createCanonicalHeaders(vreq, signedHeaders)
                = Join([i \in 1..Len(signedHeaders) |->
                            DeclaredHeaderLine(vreq, signedHeaders[i])], <<>>)

\* a %XX escape
IsEscape(c) == c \in {"%20", "%09", "%2B", "%3D", "%2F"}

\* C38: without a pre-encoded path the canonical URI holds only unreserved
\* characters, '/' and %XX escapes, and the empty path gives "/".
C38_CanonicalURIIsEscaped ==
    (Calculated /\ vreq.rawPath = <<>>) =>
        /\ \A i \in 1..Len(canonicalURI(vreq)) :
              \/ isUnreserved(canonicalURI(vreq)[i])
              \/ canonicalURI(vreq)[i] = "/"
              \/ IsEscape(canonicalURI(vreq)[i])
        /\ vreq.path = <<>> => canonicalURI(vreq) = <<"/">>

\* the entries are as C37 states them when every declared name is in lower
\* case already
LowerCaseNamesAreAsDeclared ==
    LET signedHeaders == vreq.authz.signedHeaders
    IN  (Calculated /\ \A i \in 1..Len(signedHeaders) : ToLower(signedHeaders[i]) = signedHeaders[i])
            => createCanonicalHeaders(vreq, signedHeaders)
                    = Join([i \in 1..Len(signedHeaders) |->
                                DeclaredHeaderLine(vreq, signedHeaders[i])], <<>>)

====
